---- MODULE Spec2Model ----
(***************************************************************************)
(* Model of event-lead-gen: the Speaker record (models.py), the generic    *)
(* speaker scraper and its escalation chain (scrapers/generic.py), the     *)
(* site-specific scrapers it dispatches to, and the worksheet reader       *)
(* (output/sheets.py).                                                     *)
(*                                                                         *)
(* A Python str is a sequence of one-character strings.  None is the       *)
(* one-element sequence <<"<None>">>, which no str of the model equals.    *)
(***************************************************************************)
EXTENDS Integers, Sequences, FiniteSets, TLC

VARIABLES
    \* ---- scrape_speakers (generic.py) ----
    pc,                   \* position inside scrape_speakers
    url,                  \* the set of registered site patterns the url contains
    playwright_available, \* PLAYWRIGHT_AVAILABLE
    calls,                \* strategies invoked so far, in order
    status,               \* outcome of session.get: the exception raised, the status code
    is_js_heavy,          \* local is_js_heavy
    has_pagination,       \* local has_pagination
    speakers,             \* local speakers (site result, then the card records)
    unique_speakers,      \* local unique_speakers
    escalation,           \* the escalation path run last and the list it returned
    result,               \* the returned list
    result_src,           \* which return statement produced result
    nextjs_speakers,      \* what _extract_nextjs_speakers returned (line 578)
    soup,                 \* the parsed page (line 583)
    selection,            \* local speaker_cards and how the loop of line 588 got it
    \* ---- _dedupe_speakers and the inline pass, applied to drawn inputs ----
    d_in, d_out, d_twice, d_inline,
    \* ---- Speaker construction and read_speakers_from_worksheet ----
    given, obj, sheet_values, sheet_speakers,
    \* ---- one function of the scrapers applied to a drawn argument ----
    callee,               \* the function
    arg,                  \* its argument
    runs,                 \* how many times it has been called with arg
    ret,                  \* what the first call returned
    ret_again,            \* what the second call returned
    \* ---- the scroll loop of _scrape_with_playwright (lines 61-83) ----
    scroll_pc,            \* "loop" inside the while, "scrolled" after it, "failed"
    max_scrolls,          \* parameter max_scrolls
    scroll_count,         \* local scroll_count
    last_card_count,      \* local last_card_count
    card_count,           \* local card_count of the latest iteration
    scrolls,              \* calls of page.evaluate(scrollTo) made so far
    left_by,              \* how the loop was left: "break", "limit", "raised"
    \* ---- enrich_speakers and _enrich_batch (apollo.py) ----
    enrich_pc,            \* position inside enrich_speakers / _enrich_batch
    api_key,              \* APOLLO_API_KEY is set
    roster,               \* the list `speakers`: who they are and their email
    batch_i,              \* the i of the loop of line 39
    api_log,              \* requests.post and time.sleep calls so far, in order
    batch_log,            \* how _enrich_batch ended for each batch so far
    enrich_ret            \* what enrich_speakers returned

orchVars   == <<pc, url, playwright_available, calls, status, is_js_heavy,
                has_pagination, speakers, unique_speakers, escalation,
                result, result_src, nextjs_speakers, soup, selection>>
dedupeVars == <<d_in, d_out, d_twice, d_inline>>
modelVars  == <<given, obj, sheet_values, sheet_speakers>>
applyVars  == <<callee, arg, runs, ret, ret_again>>
scrollVars == <<scroll_pc, max_scrolls, scroll_count, last_card_count, card_count,
                scrolls, left_by>>
enrichVars == <<enrich_pc, api_key, roster, batch_i, api_log, batch_log, enrich_ret>>
vars       == <<orchVars, dedupeVars, modelVars, applyVars, scrollVars, enrichVars>>

----------------------------------------------------------------------------
(* Bounds *)

MaxNameLen   == 5    \* longest name handed to the Speaker constructor
MaxDedupeLen == 3    \* longest list handed to the deduplication
MaxKeyLen    == 1    \* longest enumerated name in a list handed to the deduplication
MaxRows      == 2    \* data rows of a worksheet
MaxCards     == 2    \* cards matched on one page
MaxPages     == 2    \* entries of a payload, detail pages of an enumeration

----------------------------------------------------------------------------
(* Python str *)

None  == <<"<None>">>
Empty == <<>>

Whitespace == {" "}
Chars      == {"a", "A", "b", " "}

\* bool(x) of an Optional[str]
Truthy(x) == x # None /\ x # Empty

\* str.lower(), one character
LowerChar(c) == CASE c = "A" -> "a"
                  [] c = "B" -> "b"
                  [] c = "D" -> "d"
                  [] c = "E" -> "e"
                  [] c = "H" -> "h"
                  [] c = "J" -> "j"
                  [] c = "N" -> "n"
                  [] c = "O" -> "o"
                  [] c = "S" -> "s"
                  [] c = "T" -> "t"
                  [] c = "V" -> "v"
                  [] c = "W" -> "w"
                  [] OTHER   -> c

Lower(s) == [i \in 1..Len(s) |-> LowerChar(s[i])]

RECURSIVE LStrip(_)
LStrip(s) == IF s # <<>> /\ Head(s) \in Whitespace THEN LStrip(Tail(s)) ELSE s

RECURSIVE RStrip(_)
RStrip(s) == IF s # <<>> /\ s[Len(s)] \in Whitespace
             THEN RStrip(SubSeq(s, 1, Len(s) - 1)) ELSE s

\* str.strip()
Strip(s) == RStrip(LStrip(s))

\* str.split(): the maximal runs of non-whitespace characters
RECURSIVE SplitFrom(_, _, _)
SplitFrom(s, cur, acc) ==
    IF s = <<>> THEN (IF cur = <<>> THEN acc ELSE Append(acc, cur))
    ELSE IF Head(s) \in Whitespace
         THEN SplitFrom(Tail(s), <<>>, IF cur = <<>> THEN acc ELSE Append(acc, cur))
         ELSE SplitFrom(Tail(s), Append(cur, Head(s)), acc)

Split(s) == SplitFrom(s, <<>>, <<>>)

\* " ".join(parts)
RECURSIVE Join(_)
Join(parts) == IF parts = <<>> THEN <<>>
               ELSE IF Len(parts) = 1 THEN parts[1]
               ELSE parts[1] \o <<" ">> \o Join(Tail(parts))

\* all str over alphabet of length at most n
RECURSIVE StrsUpTo(_, _)
StrsUpTo(alphabet, n) ==
    IF n = 0 THEN {<<>>}
    ELSE LET shorter == StrsUpTo(alphabet, n - 1)
         IN  shorter \cup {Append(s, c) : s \in shorter, c \in alphabet}

\* all lists over pool of length at most n
RECURSIVE ListsUpTo(_, _)
ListsUpTo(pool, n) ==
    IF n = 0 THEN {<<>>}
    ELSE LET shorter == ListsUpTo(pool, n - 1)
         IN  shorter \cup {Append(l, x) : l \in shorter, x \in pool}

----------------------------------------------------------------------------
(* models.py: Speaker *)

\* Speaker.__post_init__ deriving the names whenever name is set
PostInit_always(self) ==
    IF Truthy(self.name)
    THEN LET parts == Split(Strip(self.name))
         IN  IF parts # <<>>
             THEN [self EXCEPT !.first_name = parts[1],
                               !.last_name  = IF Len(parts) > 1
                                              THEN Join(Tail(parts)) ELSE Empty]
             ELSE self
    ELSE self

\* Speaker.__post_init__
PostInit(self) ==
    IF Truthy(self.name) /\ ~Truthy(self.first_name)
    THEN LET parts == Split(Strip(self.name))
         IN  IF parts # <<>>
             THEN [self EXCEPT !.first_name = parts[1],
                               !.last_name  = IF Len(parts) > 1
                                              THEN Join(Tail(parts)) ELSE Empty]
             ELSE self
    ELSE self

\* the dataclass constructor: field assignment, then __post_init__
Speaker(name, title, company, email, first_name, last_name) ==
    PostInit([name |-> name, title |-> title, company |-> company,
              email |-> email, first_name |-> first_name, last_name |-> last_name])

NoSpeaker == [name |-> None, title |-> None, company |-> None, email |-> None,
              first_name |-> None, last_name |-> None]
NoArgs    == [name |-> None, first_name |-> None, last_name |-> None]

----------------------------------------------------------------------------
(* output/sheets.py: read_speakers_from_worksheet *)

HEADERS == <<"First Name", "Last Name", "Email", "Job Title", "Company Name",
             "LinkedIn URL", "Twitter URL", "Source Event">>

\* col_map.get(h): the last column whose header is h, 0 for None
ColMap(headers, h) ==
    LET at == {i \in 1..Len(headers) : headers[i] = h}
    IN  IF at = {} THEN 0 ELSE CHOOSE i \in at : \A j \in at : j <= i

\* row[col_map.get(h, d)] if col_map.get(h) is not None and len(row) > ... else ""
Cell(row, headers, h) ==
    LET i == ColMap(headers, h)
    IN  IF i # 0 /\ Len(row) >= i THEN row[i] ELSE Empty

\* not row or not any(row)
BlankRow(row) == \A i \in 1..Len(row) : row[i] = Empty

\* the loop body of lines 300-321 for one row that is not skipped
RowSpeaker(row, headers) ==
    LET first_name == Cell(row, headers, "First Name")
        last_name  == Cell(row, headers, "Last Name")
        name       == Strip(first_name \o <<" ">> \o last_name)
    IN  Speaker(name, Cell(row, headers, "Job Title"),
                Cell(row, headers, "Company Name"), Cell(row, headers, "Email"),
                None, None)

RECURSIVE RowSpeakers(_, _)
RowSpeakers(rows, headers) ==
    IF rows = <<>> THEN <<>>
    ELSE IF BlankRow(Head(rows)) THEN RowSpeakers(Tail(rows), headers)
    ELSE <<RowSpeaker(Head(rows), headers)>> \o RowSpeakers(Tail(rows), headers)

\* read_speakers_from_worksheet, from sheet.get_all_values() on
read_speakers_from_worksheet(values) ==
    IF Len(values) < 2 THEN <<>>
    ELSE RowSpeakers(Tail(values), values[1])

MaxCellLen == 500    \* if len(text) > 500: text = text[:500]

\* sanitize_for_sheets: None becomes "", runs of whitespace become one space,
\* the ends are trimmed and the text is cut at 500 characters
sanitize_for_sheets(text) ==
    IF text = None THEN Empty
    ELSE LET clean == Join(Split(text))
         IN  IF Len(clean) > MaxCellLen THEN SubSeq(clean, 1, MaxCellLen) ELSE clean

\* the row of one speaker (lines 69-78); the model's speakers carry no links
SheetRow(speaker, source_event) ==
    << sanitize_for_sheets(speaker.first_name), sanitize_for_sheets(speaker.last_name),
       sanitize_for_sheets(speaker.email), sanitize_for_sheets(speaker.title),
       sanitize_for_sheets(speaker.company), Empty, Empty,
       sanitize_for_sheets(source_event) >>

format_speakers_for_sheets(speakers_, source_event) ==
    [k \in 1..Len(speakers_) |-> SheetRow(speakers_[k], source_event)]

\* export_to_sheet appends HEADERS and the rows (lines 128-133);
\* get_all_values gives them back
Exported(speakers_, source_event) ==
    <<HEADERS>> \o format_speakers_for_sheets(speakers_, source_event)

----------------------------------------------------------------------------
(* scrapers/generic.py: deduplication *)

\* the loop of _dedupe_speakers started after the first element
RECURSIVE DedupeLoop(_, _, _)
DedupeLoop(rest, seen, unique) ==
    IF rest = <<>> THEN unique
    ELSE LET s   == Head(rest)
             key == Strip(Lower(s.name))
         IN  IF key \notin seen
             THEN DedupeLoop(Tail(rest), seen \cup {key}, Append(unique, s))
             ELSE DedupeLoop(Tail(rest), seen, unique)

\* _dedupe_speakers iterating speakers[1:]
dedupe_skipFirst(speakers_) ==
    DedupeLoop(IF speakers_ = <<>> THEN <<>> ELSE Tail(speakers_), {}, <<>>)

\* _dedupe_speakers
_dedupe_speakers(speakers_) == DedupeLoop(speakers_, {}, <<>>)

\* the inline pass of scrape_speakers (lines 607-614): the loop over `rest`
\* started with seen_names and unique, giving both as the loop leaves them.
\* A list of several speakers is walked as its first half followed by its
\* second half, the second half starting from what the first half left.
RECURSIVE InlineLoop(_, _, _)
InlineLoop(rest, seen_names, unique) ==
    IF rest = <<>> THEN [seen_names |-> seen_names, unique |-> unique]
    ELSE IF Len(rest) = 1
    THEN LET speaker         == Head(rest)
             normalized_name == Strip(Lower(speaker.name))
         IN  IF normalized_name \notin seen_names
             THEN [seen_names |-> seen_names \cup {normalized_name},
                   unique     |-> Append(unique, speaker)]
             ELSE [seen_names |-> seen_names, unique |-> unique]
    ELSE LET half == Len(rest) \div 2
         IN  CHOOSE last \in
                 {InlineLoop(SubSeq(rest, half + 1, Len(rest)),
                             first.seen_names, first.unique) :
                      first \in {InlineLoop(SubSeq(rest, 1, half), seen_names, unique)}} :
                 TRUE

\* the inline pass comparing names as they are
InlineDedupe_exact(speakers_) ==
    LET RECURSIVE Loop(_, _, _)
        Loop(rest, seen_names, unique) ==
            IF rest = <<>> THEN unique
            ELSE IF Head(rest).name \notin seen_names
                 THEN Loop(Tail(rest), seen_names \cup {Head(rest).name},
                           Append(unique, Head(rest)))
                 ELSE Loop(Tail(rest), seen_names, unique)
    IN  Loop(speakers_, {}, <<>>)

InlineDedupe(speakers_) == InlineLoop(speakers_, {}, <<>>).unique

----------------------------------------------------------------------------
(* Values the variables of an operation hold while it is not in use *)

NotRun == <<NoSpeaker>>

NoResponse == [exc |-> "none", code |-> 0]

\* before line 583 there is no parsed page and no speaker_cards
NoSoup      == [by_selector |-> <<>>, containers |-> <<>>]
NotSelected == [cards |-> <<>>, consulted |-> 0, fallback |-> FALSE]

OrchIdle ==
    /\ pc = "idle" /\ url = {} /\ playwright_available = FALSE
    /\ calls = <<>> /\ status = NoResponse
    /\ is_js_heavy = FALSE /\ has_pagination = FALSE
    /\ speakers = <<>> /\ unique_speakers = <<>>
    /\ escalation = [path |-> "none", speakers |-> <<>>]
    /\ result = <<>> /\ result_src = "none" /\ nextjs_speakers = <<>>
    /\ soup = NoSoup /\ selection = NotSelected

DedupeIdle ==
    /\ d_in = NotRun /\ d_out = NotRun /\ d_twice = NotRun /\ d_inline = NotRun

ModelIdle ==
    /\ given = NoArgs /\ obj = NoSpeaker
    /\ sheet_values = <<>> /\ sheet_speakers = <<>>

ScrollIdle ==
    /\ scroll_pc = "idle" /\ max_scrolls = 0 /\ scroll_count = 0
    /\ last_card_count = 0 /\ card_count = 0 /\ scrolls = 0 /\ left_by = "none"

EnrichIdle ==
    /\ enrich_pc = "idle" /\ api_key = FALSE /\ roster = <<>> /\ batch_i = 0
    /\ api_log = <<>> /\ batch_log = <<>> /\ enrich_ret = <<>>

ApplyIdle ==
    /\ callee = "none" /\ arg = <<>> /\ runs = 0 /\ ret = <<>> /\ ret_again = <<>>

----------------------------------------------------------------------------
(* Speaker construction and the worksheet reader on drawn inputs *)

NameInputs      == StrsUpTo(Chars, MaxNameLen)
FirstNameInputs == {None, Empty, <<"b">>, <<"b", " ", "a">>}
LastNameInputs  == {None, Empty, <<"a">>}

CellInputs == {Empty, <<"a">>, <<"a", " ", "b">>, <<" ">>}
RowInputs  == {<<f, l, e, Empty, Empty, Empty, Empty, Empty>> :
                  f \in CellInputs, l \in CellInputs, e \in {Empty, <<"a">>}}
SheetInputs == {<<>>} \cup {<<HEADERS>> \o rows : rows \in ListsUpTo(RowInputs, MaxRows)}

ModelInit ==
    ModelIdle /\ OrchIdle /\ DedupeIdle /\ ApplyIdle /\ ScrollIdle /\ EnrichIdle

\* Speaker(name=..., first_name=..., last_name=...)
Construct ==
    /\ obj = NoSpeaker /\ sheet_values = <<>>
    /\ \E name \in NameInputs, fn \in FirstNameInputs, ln \in LastNameInputs :
          /\ given' = [name |-> name, first_name |-> fn, last_name |-> ln]
          /\ obj'   = Speaker(name, None, None, None, fn, ln)
    /\ UNCHANGED <<sheet_values, sheet_speakers, orchVars, dedupeVars, applyVars,
                   scrollVars, enrichVars>>

\* read_speakers_from_worksheet(spreadsheet_id, worksheet_name)
ReadWorksheet ==
    /\ obj = NoSpeaker /\ sheet_values = <<>>
    /\ \E values \in SheetInputs \ {<<>>} :
          /\ sheet_values'   = values
          /\ sheet_speakers' = read_speakers_from_worksheet(values)
    /\ UNCHANGED <<given, obj, orchVars, dedupeVars, applyVars,
                   scrollVars, enrichVars>>

ModelNext == Construct \/ ReadWorksheet

ModelSpec == ModelInit /\ [][ModelNext]_vars

----------------------------------------------------------------------------
(* The deduplication on drawn inputs *)

DedupeChars == {"a", "A", " "}
Digits      == <<"1", "2", "3", "4", "5", "6", "7", "8", "9">>
Tag(i)      == <<Digits[i]>>

\* the list of Speaker(name=ns[i], title=Tag(i))
Tagged(ns) == [i \in 1..Len(ns) |-> Speaker(ns[i], Tag(i), None, None, None, None)]

JaneDoe      == <<"J", "a", "n", "e", " ", "D", "o", "e">>
JANEDOE      == <<"J", "A", "N", "E", " ", "D", "O", "E">>
Bob          == <<"B", "o", "b">>
JaneExample  == <<Speaker(JaneDoe, <<"A">>, None, None, None, None),
                  Speaker(JANEDOE, <<"B">>, None, None, None, None),
                  Speaker(Bob,     <<"C">>, None, None, None, None)>>

\* names that differ from a shorter one only by surrounding whitespace
PaddedNames  == {<<"a", " ">>, <<" ", "A">>}
DedupeNames  == StrsUpTo(DedupeChars, MaxKeyLen) \cup PaddedNames

DedupeInputs ==
    {Tagged(ns) : ns \in ListsUpTo(DedupeNames, MaxDedupeLen)} \cup {JaneExample}

DedupeInit ==
    /\ d_in \in DedupeInputs
    /\ d_out = NotRun /\ d_twice = NotRun /\ d_inline = NotRun
    /\ ModelIdle /\ OrchIdle /\ ApplyIdle /\ ScrollIdle /\ EnrichIdle

\* _dedupe_speakers(d_in)
DedupeOnce ==
    /\ d_out = NotRun
    /\ d_out' = _dedupe_speakers(d_in)
    /\ UNCHANGED <<d_in, d_twice, d_inline, orchVars, modelVars, applyVars,
                   scrollVars, enrichVars>>

\* _dedupe_speakers(_dedupe_speakers(d_in))
DedupeTwice ==
    /\ d_out # NotRun /\ d_twice = NotRun
    /\ d_twice' = _dedupe_speakers(d_out)
    /\ UNCHANGED <<d_in, d_out, d_inline, orchVars, modelVars, applyVars,
                   scrollVars, enrichVars>>

\* the inline pass of scrape_speakers on d_in
InlinePass ==
    /\ d_inline = NotRun
    /\ d_inline' = InlineDedupe(d_in)
    /\ UNCHANGED <<d_in, d_out, d_twice, orchVars, modelVars, applyVars,
                   scrollVars, enrichVars>>

DedupeNext == DedupeOnce \/ DedupeTwice \/ InlinePass

DedupeSpec == DedupeInit /\ [][DedupeNext]_vars

----------------------------------------------------------------------------
(* Properties of the deduplication (DedupeSpec) *)

\* a name lower-cased after trimming
TrimmedLower(n) == Lower(Strip(n))

\* the positions of l whose name no earlier position carries
FirstPositions(l) ==
    {i \in 1..Len(l) :
        \A j \in 1..(i - 1) : TrimmedLower(l[j].name) # TrimmedLower(l[i].name)}

\* the elements of l at the positions of idx that are >= i, in the order of l
RECURSIVE AtPositions(_, _, _)
AtPositions(l, idx, i) ==
    IF i > Len(l) THEN <<>>
    ELSE (IF i \in idx THEN <<l[i]>> ELSE <<>>) \o AtPositions(l, idx, i + 1)

\* C4: _dedupe_speakers and the inline pass of scrape_speakers keep, for each
\* distinct lower-cased trimmed name, exactly the first record with that name,
\* in the order of first appearance; [(Jane Doe,A),(JANE DOE,B),(Bob,C)]
\* gives [(Jane Doe,A),(Bob,C)].
C4_FirstOccurrenceWins ==
    /\ d_out # NotRun => d_out = AtPositions(d_in, FirstPositions(d_in), 1)
    /\ d_inline # NotRun => d_inline = AtPositions(d_in, FirstPositions(d_in), 1)
    /\ (d_in = JaneExample /\ d_out # NotRun)
          => d_out = <<JaneExample[1], JaneExample[3]>>

C4_Witness ==
    /\ d_in = JaneExample
    /\ d_out = <<JaneExample[1], JaneExample[3]>>
    /\ d_inline = d_out

\* C5: applying _dedupe_speakers to the output of _dedupe_speakers yields the
\* same sequence as applying it once.
C5_Idempotent == d_twice # NotRun => d_twice = d_out

C5_Witness ==
    /\ d_twice # NotRun
    /\ Len(d_out) >= 2 /\ Len(d_out) < Len(d_in)
    /\ d_twice = d_out

----------------------------------------------------------------------------
(* Properties of the Speaker record (ModelSpec) *)

\* C6: no Speaker whose name is empty, or empty after trimming, ever comes into
\* existence, neither from the constructor nor from a worksheet row whose
\* first-name and last-name cells are both empty.
C6_NoEmptyName ==
    /\ obj # NoSpeaker => Strip(obj.name) # Empty
    /\ \A i \in 1..Len(sheet_speakers) : Strip(sheet_speakers[i].name) # Empty

\* C8: a Speaker constructed with a non-empty name and no first_name has the
\* first whitespace-separated token of the name as first_name and the remaining
\* tokens joined by single spaces as last_name, "" for a single-token name.
C8_DerivedFromName ==
    (obj # NoSpeaker /\ given.name # Empty /\ given.first_name = None)
        => LET tokens == Split(given.name)
           IN  /\ Len(tokens) >= 1
               /\ obj.first_name = tokens[1]
               /\ obj.last_name = IF Len(tokens) > 1 THEN Join(Tail(tokens)) ELSE Empty

\* C9: a Speaker constructed with a non-empty first_name keeps first_name and
\* last_name exactly as supplied; nothing is derived from name.
C9_SuppliedNamesKept ==
    (obj # NoSpeaker /\ Truthy(given.first_name))
        => /\ obj.first_name = given.first_name
           /\ obj.last_name  = given.last_name
           /\ obj.name       = given.name

C9_Witness ==
    /\ obj # NoSpeaker /\ Truthy(given.first_name)
    /\ Len(Split(given.name)) >= 2
    /\ Split(given.name)[1] # given.first_name
    /\ given.last_name = None
    /\ obj.first_name = given.first_name /\ obj.last_name = None

----------------------------------------------------------------------------
(* scrapers/generic.py: text heuristics *)

UpperChars == {"A", "B", "D", "E", "H", "J", "N", "O", "S", "T", "V", "W"}

\* the zero-width space U+200B, which str.strip() does not remove
ZWSP == "<200b>"

\* element.get_text(strip=True) of an element holding the text raw
GetText(raw) == Strip(raw)

\* str.rstrip("​")
RECURSIVE RStripZwsp(_)
RStripZwsp(s) == IF s # <<>> /\ s[Len(s)] = ZWSP
                 THEN RStripZwsp(SubSeq(s, 1, Len(s) - 1)) ELSE s

\* needle in text
IsSubstr(needle, text) ==
    \E i \in 0..(Len(text) - Len(needle)) :
        SubSeq(text, i + 1, i + Len(needle)) = needle

\* non_name_words of _looks_like_name
non_name_words == {
    <<"t", "h", "e">>,
    <<"a", "n", "d">>,
    <<"o", "f">>,
    <<"a", "t">>,
    <<"f", "o", "r">>,
    <<"i", "n">>,
    <<"o", "n">>,
    <<"@">>,
    <<"&">>,
    <<"|">>}

\* company_words of _looks_like_name
company_words == {
    <<"c", "a", "p", "i", "t", "a", "l">>,
    <<"m", "a", "n", "a", "g", "e", "m", "e", "n", "t">>,
    <<"l", "a", "b", "s">>,
    <<"v", "e", "n", "t", "u", "r", "e", "s">>,
    <<"p", "a", "r", "t", "n", "e", "r", "s">>,
    <<"g", "r", "o", "u", "p">>,
    <<"i", "n", "c">>,
    <<"c", "o", "r", "p">>,
    <<"l", "l", "c">>,
    <<"l", "t", "d">>,
    <<"f", "o", "u", "n", "d", "a", "t", "i", "o", "n">>,
    <<"f", "u", "n", "d">>,
    <<"b", "a", "n", "k">>,
    <<"f", "i", "n", "a", "n", "c", "e">>,
    <<"c", "o", "n", "s", "u", "l", "t", "i", "n", "g">>,
    <<"a", "d", "v", "i", "s", "o", "r", "y">>,
    <<"h", "o", "l", "d", "i", "n", "g", "s">>,
    <<"i", "n", "v", "e", "s", "t", "m", "e", "n", "t", "s">>,
    <<"a", "s", "s", "e", "t">>,
    <<"a", "s", "s", "e", "t", "s">>,
    <<"d", "i", "g", "i", "t", "a", "l">>,
    <<"c", "r", "y", "p", "t", "o">>,
    <<"b", "l", "o", "c", "k", "c", "h", "a", "i", "n">>,
    <<"n", "e", "t", "w", "o", "r", "k">>,
    <<"p", "r", "o", "t", "o", "c", "o", "l">>,
    <<"e", "x", "c", "h", "a", "n", "g", "e">>,
    <<"t", "e", "c", "h", "n", "o", "l", "o", "g", "y">>,
    <<"t", "e", "c", "h", "n", "o", "l", "o", "g", "i", "e", "s">>,
    <<"s", "o", "l", "u", "t", "i", "o", "n", "s">>,
    <<"s", "e", "r", "v", "i", "c", "e", "s">>,
    <<"g", "l", "o", "b", "a", "l">>,
    <<"i", "n", "t", "e", "r", "n", "a", "t", "i", "o", "n", "a", "l">>,
    <<"i", "n", "s", "t", "i", "t", "u", "t", "e">>,
    <<"a", "s", "s", "o", "c", "i", "a", "t", "i", "o", "n">>,
    <<"c", "o", "u", "n", "c", "i", "l">>,
    <<"c", "h", "a", "m", "b", "e", "r">>}

MinWords == 2
MaxWords == 5

\* _looks_like_name comparing the words as they are written
_looks_like_name_caseSensitive(text) ==
    LET words == Split(text)
    IN  /\ ~(Len(words) < MinWords)
        /\ ~(Len(words) > MaxWords)
        /\ ~(\E i \in 1..Len(words) : words[i] \in non_name_words)
        /\ ~(\E i \in 1..Len(words) : words[i] \in company_words)
        /\ text[1] \in UpperChars

\* _looks_like_name
_looks_like_name(text) ==
    LET words == Split(text)
    IN  /\ ~(Len(words) < MinWords)
        /\ ~(Len(words) > MaxWords)
        /\ ~(\E i \in 1..Len(words) : Lower(words[i]) \in non_name_words)
        /\ ~(\E i \in 1..Len(words) : Lower(words[i]) \in company_words)
        /\ text[1] \in UpperChars

(* _extract_company_from_title: a pattern of the list `patterns` is a record
     tokens : the strings its leading alternative matches, re.IGNORECASE
     spaces : the least number of whitespace characters after the token,
              1 where the pattern has \s+ and 0 where it has \s* ;
   every pattern ends in the group that is returned, one character or more
   up to the end of the title. *)
patterns ==
    <<[tokens |-> {<<"a", "t">>, <<"@">>}, spaces |-> 1],
      [tokens |-> {<<",">>},               spaces |-> 1],
      [tokens |-> {<<"|">>},               spaces |-> 0],
      [tokens |-> {<<"-">>},               spaces |-> 1]>>

\* the number of whitespace characters of text from position i on
RECURSIVE SpacesFrom(_, _)
SpacesFrom(text, i) ==
    IF i > Len(text) \/ text[i] \notin Whitespace THEN 0
    ELSE 1 + SpacesFrom(text, i + 1)

\* the position after a token of pattern that stands at position i of text,
\* 0 if none does
AfterToken(pattern, text, i) ==
    LET ends == {i + Len(t) : t \in {t \in pattern.tokens :
                     /\ i + Len(t) - 1 <= Len(text)
                     /\ Lower(SubSeq(text, i, i + Len(t) - 1)) = t}}
    IN  IF ends = {} THEN 0 ELSE CHOOSE k \in ends : TRUE

\* pattern matches text from position i: the whitespace is followed by some
\* text, or the whitespace is the end of text and gives its last character
\* back to the group
MatchesAt(pattern, text, i) ==
    LET k == AfterToken(pattern, text, i)
        w == SpacesFrom(text, k)
    IN  /\ k # 0
        /\ \/ k + w <= Len(text) /\ w >= pattern.spaces
           \/ k + w > Len(text) /\ w >= pattern.spaces + 1

\* group(1) of the match of pattern that starts at position i
GroupAt(pattern, text, i) ==
    LET k == AfterToken(pattern, text, i)
        w == SpacesFrom(text, k)
    IN  IF k + w <= Len(text) THEN SubSeq(text, k + w, Len(text))
        ELSE SubSeq(text, Len(text), Len(text))

\* re.search(pattern, title, re.IGNORECASE): the leftmost match, 0 if none
Search(pattern, title) ==
    LET starts == {i \in 1..Len(title) : MatchesAt(pattern, title, i)}
    IN  IF starts = {} THEN 0
        ELSE CHOOSE i \in starts : \A j \in starts : i <= j

\* the loop of lines 835-838 from the n-th pattern on
RECURSIVE CompanyFrom(_, _)
CompanyFrom(title, n) ==
    IF n > Len(patterns) THEN None
    ELSE IF Search(patterns[n], title) # 0
    THEN Strip(GroupAt(patterns[n], title, Search(patterns[n], title)))
    ELSE CompanyFrom(title, n + 1)

\* _extract_company_from_title
_extract_company_from_title(title) == CompanyFrom(title, 1)

MinNameLen == 2
MaxNameTextLen == 50

\* the name test letting texts of 50 characters through
AcceptableName_upTo50(text) ==
    /\ MinNameLen < Len(text) /\ Len(text) <= MaxNameTextLen
    /\ _looks_like_name(text)

\* 2 < len(text) < 50 and _looks_like_name(text)
AcceptableName(text) ==
    /\ MinNameLen < Len(text) /\ Len(text) < MaxNameTextLen
    /\ _looks_like_name(text)

\* the first text of texts that AcceptableName accepts, None if there is none
RECURSIVE FirstAcceptable(_)
FirstAcceptable(texts) ==
    IF texts = <<>> THEN None
    ELSE IF AcceptableName(GetText(Head(texts))) THEN GetText(Head(texts))
    ELSE FirstAcceptable(Tail(texts))

\* [f(x) for x in xs if keep(f(x))] for f = GetText, keep = bool
RECURSIVE NonEmptyTexts(_)
NonEmptyTexts(raws) ==
    IF raws = <<>> THEN <<>>
    ELSE (IF GetText(Head(raws)) # Empty THEN <<GetText(Head(raws))>> ELSE <<>>)
             \o NonEmptyTexts(Tail(raws))

(* A card is a record
     elementor   : a class of the card contains "elementor"
     h2          : the raw texts of its h2.elementor-heading-title elements
     widgets     : the raw texts of its .elementor-widget-text-editor elements
     by_sel      : the raw texts of the first match of each NAME_SELECTORS
                   entry that matches, in list order
     by_tag      : the raw texts of its h2/h3/h4/strong/b elements, document
                   order
     title_sel   : the raw texts of the first match of each TITLE_SELECTORS
                   entry that matches, in list order
     company_sel : the same for COMPANY_SELECTORS
     parts       : the raw texts of its p, span and div elements, document
                   order
   _extract_speaker_from_card returns a Speaker, or NoSpeaker for None. *)

\* lines 690-715: the page-builder branch
ElementorSpeaker(card) ==
    LET h2_texts     == [i \in 1..Len(card.h2) |-> RStripZwsp(GetText(card.h2[i]))]
        widget_texts == NonEmptyTexts(card.widgets)
        name    == IF h2_texts # <<>> THEN h2_texts[1] ELSE None
        company == IF Len(h2_texts) > 1 THEN h2_texts[2] ELSE None
        title   == IF widget_texts # <<>> THEN widget_texts[1] ELSE None
    IN  IF ~Truthy(name) THEN NoSpeaker
        ELSE Speaker(name, title, company, None, None, None)

MaxTitleLen == 100
MaxPartLen  == 200

\* the loop of lines 750-759 over the matches of TITLE_SELECTORS
RECURSIVE FirstTitle(_, _)
FirstTitle(texts, name) ==
    IF texts = <<>> THEN None
    ELSE LET text == GetText(Head(texts))
         IN  IF text # Empty /\ text # name /\ Len(text) < MaxTitleLen THEN text
             ELSE FirstTitle(Tail(texts), name)

\* the loop of lines 762-771 over the matches of COMPANY_SELECTORS
RECURSIVE FirstCompany(_, _, _)
FirstCompany(texts, name, title) ==
    IF texts = <<>> THEN None
    ELSE LET text == GetText(Head(texts))
         IN  IF text # Empty /\ text # name /\ text # title THEN text
             ELSE FirstCompany(Tail(texts), name, title)

\* lines 780-781: company after the backfill
Backfill(company, title, all_text_parts) ==
    IF ~Truthy(company) /\ Len(all_text_parts) > 1 THEN all_text_parts[2] ELSE company

\* lines 717-788: the branch for cards without the page-builder marker
GenericSpeaker(card) ==
    LET by_sel == FirstAcceptable(card.by_sel)
        name   == IF Truthy(by_sel) THEN by_sel ELSE FirstAcceptable(card.by_tag)
        all_text_parts ==
            SelectSeq([i \in 1..Len(card.parts) |-> GetText(card.parts[i])],
                      LAMBDA text : text # Empty /\ text # name /\ Len(text) < MaxPartLen)
        selected_title   == FirstTitle(card.title_sel, name)
        selected_company == FirstCompany(card.company_sel, name, selected_title)
        parsed_company   == IF ~Truthy(selected_company) /\ Truthy(selected_title)
                            THEN _extract_company_from_title(selected_title)
                            ELSE selected_company
        title   == IF ~Truthy(selected_title) /\ all_text_parts # <<>>
                   THEN all_text_parts[1] ELSE selected_title
        company == Backfill(parsed_company, title, all_text_parts)
    IN  IF ~Truthy(name) THEN NoSpeaker
        ELSE Speaker(name, title, company, None, None, None)

\* _extract_speaker_from_card putting the page-builder name to the name test
_extract_speaker_from_card_heuristic(card) ==
    IF card.elementor
    THEN IF ElementorSpeaker(card) # NoSpeaker /\ AcceptableName(ElementorSpeaker(card).name)
         THEN ElementorSpeaker(card) ELSE NoSpeaker
    ELSE GenericSpeaker(card)

\* _extract_speaker_from_card
_extract_speaker_from_card(card) ==
    IF card.elementor THEN ElementorSpeaker(card) ELSE GenericSpeaker(card)

\* SPEAKER_SELECTORS (lines 464-486)
SPEAKER_SELECTORS ==
    <<".speaker", ".speaker-card", ".speaker-item", ".speakers-item", ".team-member",
      ".speaker-box", ".speaker-block", ".person", ".person-card",
      "[class*='speaker']", "[class*='Speaker']", "article.speaker", "div[data-speaker]",
      ".elementor-col-16", ".elementor-col-20", ".elementor-col-25", ".elementor-col-33">>

MinCardText == 20
MaxCardText == 500
MinSiblings == 3

(* The parsed page is a record
     by_selector : for each selector of SPEAKER_SELECTORS, in list order, the
                   cards soup.select gives for it
     containers  : its div, article, li and section elements in document
                   order, each a record
                     tag       : its tag name
                     has_image : it contains an img
                     text_len  : len(get_text(strip=True))
                     parent    : its parent element
                     card      : what _extract_speaker_from_card reads of it *)

\* has_image and 20 < len(text_content) < 500 (line 665)
IsCandidate(container) ==
    container.has_image /\ MinCardText < container.text_len /\ container.text_len < MaxCardText

\* the siblings of every candidate, filtered to the candidates
Siblings_candidatesOnly(containers, container) ==
    SelectSeq(containers,
              LAMBDA other : /\ other.parent = container.parent
                             /\ other.tag = container.tag
                             /\ IsCandidate(other))

\* parent.find_all(container.name, recursive=False)
Siblings(containers, container) ==
    SelectSeq(containers,
              LAMBDA other : other.parent = container.parent /\ other.tag = container.tag)

\* the loop of _fallback_speaker_detection from the n-th container on
RECURSIVE FallbackFrom(_, _)
FallbackFrom(containers, n) ==
    IF n > Len(containers) THEN <<>>
    ELSE IF /\ IsCandidate(containers[n])
            /\ Len(Siblings(containers, containers[n])) >= MinSiblings
    THEN Siblings(containers, containers[n])
    ELSE FallbackFrom(containers, n + 1)

\* _fallback_speaker_detection: the elements it returns
_fallback_speaker_detection(containers) == FallbackFrom(containers, 1)

\* the loop of lines 588-596 from the k-th selector on, and the fallback of
\* lines 598-600; consulted counts the selectors that were tried
RECURSIVE SelectFrom(_, _)
SelectFrom(parsed, k) ==
    IF k > Len(SPEAKER_SELECTORS)
    THEN LET found == _fallback_speaker_detection(parsed.containers)
         IN  [cards     |-> [i \in 1..Len(found) |-> found[i].card],
              consulted |-> Len(SPEAKER_SELECTORS), fallback |-> TRUE]
    ELSE IF parsed.by_selector[k] # <<>>
    THEN [cards |-> parsed.by_selector[k], consulted |-> k, fallback |-> FALSE]
    ELSE SelectFrom(parsed, k + 1)

\* the selection that goes on to the last selector that matches
SelectCards_lastMatch(parsed) ==
    LET matching == {k \in 1..Len(SPEAKER_SELECTORS) : parsed.by_selector[k] # <<>>}
        last     == CHOOSE k \in matching : \A j \in matching : j <= k
    IN  IF matching = {} THEN SelectFrom(parsed, 1)
        ELSE [cards |-> parsed.by_selector[last], consulted |-> Len(SPEAKER_SELECTORS),
              fallback |-> FALSE]

\* speaker_cards of scrape_speakers (lines 586-600)
SelectCards(parsed) == SelectFrom(parsed, 1)

\* lines 602-605 of scrape_speakers
CardSpeakers(cards) ==
    LET extracted == [i \in 1..Len(cards) |-> _extract_speaker_from_card(cards[i])]
    IN  SelectSeq(extracted,
                  LAMBDA speaker : speaker # NoSpeaker /\ Truthy(speaker.name))

----------------------------------------------------------------------------
(* scrapers/generic.py: the extractors behind scrape_speakers *)

(* The __NEXT_DATA__ block of a page is a record
     script    : "absent"  no such script element
                 "badjson" json.loads raises JSONDecodeError
                 "json"    json.loads returns a value
     data      : "object" when that value is a JSON object, "other" otherwise
     props     : "missing" without the key props, "object" when its value is an
                 object, "other" otherwise (null, a list, a string, a number)
     pageProps : the same for the key pageProps of props
     speakers  : the value of key speakers of pageProps, a record
                   shape : "missing" without the key, "falsy" for null, false,
                           0, "", [] and {}, "list" for a non-empty list,
                           "other" for any other value
                   items : the entries of the list
   An entry is a record
     obj           : it is a JSON object
     title, name, fullName, tagLine, title_position, jobTitle, company,
     organization  : the value of that key, a string, or None for null or a
                     missing key
     custom_fields : a record [shape, speaker_job, speaker_company], shape as
                     for props; speaker_job and speaker_company are records
                     [shape, value], value the string or None under key value
   The extractor returns [raised, speakers]; raised stands for an exception
   that leaves the function. *)
Returned(list) == [raised |-> FALSE, speakers |-> list]
Raised         == [raised |-> TRUE, speakers |-> <<>>]

\* a or b, on Optional[str]
Or(a, b) == IF Truthy(a) THEN a ELSE b

\* s.get("title") or s.get("name") or s.get("fullName") (line 435)
EntryName(s) == Or(Or(s.title, s.name), s.fullName)

\* field.get("value") if isinstance(field, dict) else None, for
\* field = cf.get(key, {}) (lines 442-446)
FieldValue(field) == IF field.shape = "object" THEN field.value ELSE None

\* title with the flat aliases tried before the custom field
EntryTitle_flatFirst(s) ==
    LET title == Or(Or(s.tagLine, s.title_position), s.jobTitle)
    IN  IF ~Truthy(title) THEN FieldValue(s.custom_fields.speaker_job)
        ELSE title

\* title of lines 443 and 449-450
EntryTitle(s) ==
    LET title == FieldValue(s.custom_fields.speaker_job)
    IN  IF ~Truthy(title) THEN Or(Or(s.tagLine, s.title_position), s.jobTitle)
        ELSE title

\* company of lines 446 and 451-452
EntryCompany(s) ==
    LET company == FieldValue(s.custom_fields.speaker_company)
    IN  IF ~Truthy(company) THEN Or(s.company, s.organization)
        ELSE company

\* the body of the loop raises AttributeError: s.get on a value that is no
\* object (line 435), cf.get on a value that is no object (line 442)
EntryRaises(s) ==
    \/ ~s.obj
    \/ Truthy(EntryName(s)) /\ s.custom_fields.shape = "other"

\* the loop of lines 434-459, on entries none of which raises
RECURSIVE NextjsEntries(_)
NextjsEntries(entries) ==
    IF entries = <<>> THEN <<>>
    ELSE LET s    == Head(entries)
             name == EntryName(s)
         IN  (IF ~Truthy(name) THEN <<>>
              ELSE <<Speaker(name, EntryTitle(s), EntryCompany(s), None, None, None)>>)
                 \o NextjsEntries(Tail(entries))

\* _extract_nextjs_speakers
_extract_nextjs_speakers(block) ==
    IF block.script = "absent" THEN Returned(<<>>)
    ELSE IF block.script = "badjson" THEN Returned(<<>>)
    \* data.get on a value that is no object: AttributeError, not caught
    ELSE IF block.data # "object" THEN Raised
    \* data.get("props", {}).get on a value that is no object
    ELSE IF block.props = "other" THEN Raised
    \* props.get on a value that is no object (line 427)
    ELSE IF block.props = "object" /\ block.pageProps = "other" THEN Raised
    ELSE LET speakers_data ==
                 IF block.props = "object" /\ block.pageProps = "object"
                 THEN block.speakers
                 ELSE [shape |-> "missing", items |-> <<>>]
         IN  IF speakers_data.shape \in {"missing", "falsy"} THEN Returned(<<>>)
             \* len() of a number, s.get on a key of a dict or a character
             ELSE IF speakers_data.shape = "other" THEN Raised
             ELSE IF \E i \in 1..Len(speakers_data.items) :
                         /\ EntryRaises(speakers_data.items[i])
                         /\ \A j \in 1..(i - 1) : ~EntryRaises(speakers_data.items[j])
                  THEN Raised
                  ELSE Returned(NextjsEntries(speakers_data.items))

\* _extract_nextjs_streamed_speakers: one Speaker per "displayName":"..." match
_extract_nextjs_streamed_speakers(name_matches) ==
    [i \in 1..Len(name_matches) |->
        Speaker(name_matches[i], None, None, None, None, None)]

MinDetailNameLen == 2

(* A detail page is a record
     ok    : the request returned status 200 (FALSE: any other status, or a
             RequestException)
     h1    : the raw text of its first h1, None if it has none
     title : the raw text of its title element, None if it has none *)

\* the loop of _extract_sitemap_speakers over the pages of the sitemap's urls
RECURSIVE SitemapPages(_)
SitemapPages(pages) ==
    IF pages = <<>> THEN <<>>
    ELSE LET page == Head(pages)
             name == IF page.h1 = None THEN None ELSE GetText(page.h1)
         IN  (IF ~page.ok \/ page.h1 = None THEN <<>>
              ELSE IF ~Truthy(name) \/ Len(name) < MinDetailNameLen THEN <<>>
              ELSE <<Speaker(name, None, None, None, None, None)>>)
                 \o SitemapPages(Tail(pages))

\* _extract_sitemap_speakers; sitemap.ok is FALSE when sitemap.xml cannot be read
_extract_sitemap_speakers(sitemap) ==
    IF ~sitemap.ok THEN <<>>
    ELSE IF sitemap.pages = <<>> THEN <<>>
    ELSE SitemapPages(sitemap.pages)

\* text.split(" - ")[0]
RECURSIVE BeforeDash(_)
BeforeDash(text) ==
    IF text = <<>> THEN <<>>
    ELSE IF Len(text) >= 3 /\ SubSeq(text, 1, 3) = <<" ", "-", " ">> THEN <<>>
    ELSE <<Head(text)>> \o BeforeDash(Tail(text))

\* the loop of _extract_wordpress_paginated_speakers over the speaker pages
RECURSIVE WordpressPages(_)
WordpressPages(pages) ==
    IF pages = <<>> THEN <<>>
    ELSE LET page == Head(pages)
             h1   == IF page.h1 = None THEN None ELSE GetText(page.h1)
             name == IF Truthy(h1) THEN h1
                     ELSE IF page.title # None
                          THEN Strip(BeforeDash(GetText(page.title)))
                          ELSE h1
         IN  (IF ~page.ok THEN <<>>
              ELSE IF ~Truthy(name) \/ Len(name) < MinDetailNameLen THEN <<>>
              ELSE <<Speaker(name, None, None, None, None, None)>>)
                 \o WordpressPages(Tail(pages))

\* _extract_wordpress_paginated_speakers; pages are the speaker pages linked
\* from the archive pages, in the iteration order of the set speaker_urls
_extract_wordpress_paginated_speakers(pages) ==
    IF pages = <<>> THEN <<>> ELSE WordpressPages(pages)

\* _extract_ethcc_speaker for each card; a card is the text that follows
\* "Profile photo of" in the alt of its image, None without such an image
RECURSIVE EthccSpeakers(_)
EthccSpeakers(cards) ==
    IF cards = <<>> THEN <<>>
    ELSE LET alt  == Head(cards)
             name == IF alt = None THEN None ELSE Strip(alt)
         IN  (IF ~Truthy(name) THEN <<>>
              ELSE <<Speaker(name, None, None, None, None, None)>>)
                 \o EthccSpeakers(Tail(cards))

MinGridCards == 3

\* the cards of the first selector of SPEAKER_SELECTORS with >= 3 matches
RECURSIVE FirstGrid(_)
FirstGrid(by_selector) ==
    IF by_selector = <<>> THEN <<>>
    ELSE IF Len(Head(by_selector)) >= MinGridCards THEN Head(by_selector)
    ELSE FirstGrid(Tail(by_selector))

(* The rendered page read by _scrape_with_playwright is a record
     failed      : the browser raised
     ethcc       : its directional-hover-card cards
     streamed    : the displayName matches of its html
     by_selector : for each selector of SPEAKER_SELECTORS that matches, in
                   list order, the cards it matches *)

\* _scrape_with_playwright
_scrape_with_playwright(available, page) ==
    IF ~available THEN <<>>
    ELSE IF page.failed THEN <<>>
    ELSE LET ethcc == EthccSpeakers(page.ethcc)
             streamed == _extract_nextjs_streamed_speakers(page.streamed)
         IN  IF ethcc # <<>> THEN _dedupe_speakers(ethcc)
             ELSE IF streamed # <<>> THEN streamed
             ELSE _dedupe_speakers(ethcc \o CardSpeakers(FirstGrid(page.by_selector)))

----------------------------------------------------------------------------
(* scrapers/*_scraper.py: the site-specific extractors *)

(* What the browser of a site-specific extractor delivers is a record
     failed : the browser raised (page load, scrolling, reading the html)
     pages  : the items found in the html, in the order the extractor visits
              them; a detail page for Consensus and ETH Denver, the raw text
              of an h2 for DC Blockchain Summit, a link for BTC Prague *)

\* scrape_consensus_speakers, the loop over speaker_urls
RECURSIVE ConsensusPages(_)
ConsensusPages(pages) ==
    IF pages = <<>> THEN <<>>
    ELSE LET page == Head(pages)
             name == IF page.h1 = None THEN None ELSE GetText(page.h1)
         IN  (IF ~page.ok THEN <<>>
              ELSE IF ~Truthy(name) \/ Len(name) < MinDetailNameLen THEN <<>>
              ELSE <<Speaker(name, None, None, None, None, None)>>)
                 \o ConsensusPages(Tail(pages))

\* scrape_consensus_speakers
scrape_consensus_speakers(available, browser) ==
    IF ~available THEN <<>>
    ELSE IF browser.failed THEN <<>>
    ELSE IF browser.pages = <<>> THEN <<>>
    ELSE ConsensusPages(browser.pages)

SPEAKERS_heading == <<"s", "p", "e", "a", "k", "e", "r", "s">>
MinHeadingLen    == 3

\* scrape_dcblockchainsummit_speakers, the loop over the h2 elements
RECURSIVE DcHeadings(_)
DcHeadings(h2s) ==
    IF h2s = <<>> THEN <<>>
    ELSE LET raw  == IF Head(h2s).h1 = None THEN Empty ELSE Head(h2s).h1
             name == GetText(raw)
         IN  (IF ~Truthy(name) \/ Lower(name) = SPEAKERS_heading
                    \/ Len(name) < MinHeadingLen THEN <<>>
              ELSE <<Speaker(name, None, None, None, None, None)>>)
                 \o DcHeadings(Tail(h2s))

\* scrape_dcblockchainsummit_speakers
scrape_dcblockchainsummit_speakers(available, browser) ==
    IF ~available THEN <<>>
    ELSE IF browser.failed THEN <<>>
    ELSE DcHeadings(browser.pages)

\* skip_patterns of scrape_btcprague_speakers (line 69)
skip_patterns == {
    <<"m", "a", "n", "a", "g", "e">>,
    <<"c", "o", "o", "k", "i", "e">>,
    <<"v", "e", "n", "d", "o", "r">>,
    <<"o", "p", "t", "i", "o", "n", "s">>,
    <<"s", "e", "r", "v", "i", "c", "e", "s">>,
    <<"p", "r", "i", "v", "a", "c", "y">>,
    <<"c", "o", "n", "s", "e", "n", "t">>}

(* A speaker link of the BTC Prague page is a record
     href   : its href, a token
     paged  : "/speakers/page/" in href
     title  : its title attribute, Empty without one
     text   : its raw text
     role   : the text of the div.fs-xs of its card, Empty without one
     detail : the title its detail page yields, Empty when the page cannot be
              read or holds none
   and the page's featured heading is a record [name, role], name the raw
   text of the h1, None without such an h1. *)

\* the loop of lines 55-98: the entries of speaker_data
RECURSIVE BtcLinks(_, _)
BtcLinks(links, seen_urls) ==
    IF links = <<>> THEN <<>>
    ELSE LET link == Head(links)
             name == Or(link.title, GetText(link.text))
         IN  IF link.href \in seen_urls \/ link.paged
             THEN BtcLinks(Tail(links), seen_urls)
             ELSE (IF ~Truthy(name) \/ Len(name) < MinDetailNameLen THEN <<>>
                   ELSE IF \E pat \in skip_patterns : IsSubstr(pat, Lower(name)) THEN <<>>
                   ELSE <<[name |-> name, title |-> link.role, detail |-> link.detail]>>)
                      \o BtcLinks(Tail(links), seen_urls \cup {link.href})

\* lines 101-115: the featured heading appended to speaker_data
BtcFeatured(speaker_data, featured) ==
    IF featured.name = None THEN speaker_data
    ELSE LET name == GetText(featured.name)
         IN  IF Truthy(name) /\ ~(\E i \in 1..Len(speaker_data) : speaker_data[i].name = name)
             THEN Append(speaker_data,
                         [name |-> name, title |-> featured.role, detail |-> Empty])
             ELSE speaker_data

\* the loop of lines 123-166
BtcSpeakers(speaker_data) ==
    [i \in 1..Len(speaker_data) |->
        LET data  == speaker_data[i]
            title == IF ~Truthy(data.title) THEN data.detail ELSE data.title
        IN  Speaker(data.name, title, None, None, None, None)]

\* scrape_btcprague_speakers without the check of PLAYWRIGHT_AVAILABLE
scrape_btcprague_speakers_unguarded(available, browser) ==
    IF browser.failed THEN <<>>
    ELSE BtcSpeakers(BtcFeatured(BtcLinks(browser.pages, {}), browser.featured))

\* scrape_btcprague_speakers
scrape_btcprague_speakers(available, browser) ==
    IF ~available THEN <<>>
    ELSE IF browser.failed THEN <<>>
    ELSE BtcSpeakers(BtcFeatured(BtcLinks(browser.pages, {}), browser.featured))

\* scrape_ethdenver_speakers, the loop over speaker_urls: the h1 of a page
\* stands for its first h3 with more than 2 characters
RECURSIVE EthDenverPages(_)
EthDenverPages(pages) ==
    IF pages = <<>> THEN <<>>
    ELSE LET page == Head(pages)
             h3   == IF page.h1 = None THEN None ELSE GetText(page.h1)
             name == IF Truthy(h3) /\ Len(h3) > 2 THEN h3
                     ELSE IF page.title # None
                          THEN Strip(BeforeDash(GetText(page.title)))
                          ELSE None
         IN  (IF ~page.ok THEN <<>>
              ELSE IF ~Truthy(name) \/ Len(name) < MinDetailNameLen THEN <<>>
              ELSE <<Speaker(name, None, None, None, None, None)>>)
                 \o EthDenverPages(Tail(pages))

\* scrape_ethdenver_speakers
scrape_ethdenver_speakers(available, browser) ==
    IF ~available THEN <<>>
    ELSE IF browser.failed THEN <<>>
    ELSE EthDenverPages(browser.pages)

\* skip_texts of scrape_web3hubdavos_speakers (lines 70-71)
skip_texts == {
    <<"b", "e", "c", "o", "m", "e", " ", "a", " ", "s", "p", "e", "a", "k", "e", "r">>,
    <<"s", "t", "a", "y", " ", "u", "p", "d", "a", "t", "e", "d">>,
    <<"s", "p", "e", "a", "k", "e", "r", "s">>,
    <<"w", "e", "b", "3", " ", "h", "u", "b", " ", "d", "a", "v", "o", "s">>,
    <<"m", "e", "e", "t", " ", "o", "u", "r">>,
    <<"a", "l", "l", " ", "s", "p", "e", "a", "k", "e", "r", "s">>,
    <<"2", "0", "2", "6", " ", "s", "p", "e", "a", "k", "e", "r", "s">>,
    <<"2", "0", "2", "5", " ", "s", "p", "e", "a", "k", "e", "r", "s">>}

\* the keywords of line 112
title_keywords == {
    <<"c", "e", "o">>,
    <<"f", "o", "u", "n", "d", "e", "r">>,
    <<"h", "e", "a", "d">>,
    <<"d", "i", "r", "e", "c", "t", "o", "r">>,
    <<"c", "h", "i", "e", "f">>,
    <<"p", "a", "r", "t", "n", "e", "r">>,
    <<"c", "h", "a", "i", "r", "m", "a", "n">>,
    <<"p", "r", "e", "s", "i", "d", "e", "n", "t">>,
    <<"m", "a", "n", "a", "g", "e", "r">>,
    <<"o", "f", "f", "i", "c", "e", "r">>}

MinLinkTextLen == 5
MinManyLinks   == 10
MinSiblingLen  == 2
MaxSiblingLen  == 150

(* What the browser of scrape_web3hubdavos_speakers delivers is a record
     failed : the browser raised
     links  : for each a[href="#"], document order, the non-empty stripped
              text fragments of the link (the lines of its text)
     h2s    : for each h2, document order, a record [name, siblings] of its raw
              text and the raw texts of its following siblings *)

\* len(text) of the text whose lines are lines
RECURSIVE TextLen(_)
TextLen(lines) ==
    IF lines = <<>> THEN 0
    ELSE Len(Head(lines)) + (IF Len(lines) > 1 THEN 1 ELSE 0) + TextLen(Tail(lines))

\* any(s in text.lower() for s in skip_texts)
SkipText(lines) ==
    \E i \in 1..Len(lines) : \E pat \in skip_texts : IsSubstr(pat, Lower(lines[i]))

\* the loop of lines 77-126; the state is [speakers, seen]
RECURSIVE Web3Links(_, _)
Web3Links(links, acc) ==
    IF links = <<>> THEN acc
    ELSE LET lines  == Head(links)
             name   == Strip(lines[1])
             second == Strip(lines[2])
             title  == IF Len(lines) >= 3 THEN second
                       ELSE IF \E kw \in title_keywords : IsSubstr(kw, Lower(second))
                            THEN second ELSE Empty
             company == IF Len(lines) >= 3 THEN Strip(lines[3])
                        ELSE IF \E kw \in title_keywords : IsSubstr(kw, Lower(second))
                             THEN Empty ELSE second
         IN  IF \/ lines = <<>> \/ TextLen(lines) < MinLinkTextLen
                \/ SkipText(lines) \/ Len(lines) < 2
                \/ Len(name) < MinDetailNameLen \/ Lower(name) \in acc.seen
             THEN Web3Links(Tail(links), acc)
             ELSE Web3Links(Tail(links),
                     [speakers |-> Append(acc.speakers,
                                      Speaker(name, title, company, None, None, None)),
                      seen |-> acc.seen \cup {Lower(name)}])

\* the texts of the siblings that can be a title or a company (line 150)
RECURSIVE SiblingTexts(_, _)
SiblingTexts(siblings, name) ==
    IF siblings = <<>> THEN <<>>
    ELSE LET text == GetText(Head(siblings))
         IN  (IF text # Empty /\ text # name
                    /\ Len(text) > MinSiblingLen /\ Len(text) < MaxSiblingLen
              THEN <<text>> ELSE <<>>) \o SiblingTexts(Tail(siblings), name)

\* the loop of lines 133-163
RECURSIVE Web3Headings(_, _)
Web3Headings(h2s, acc) ==
    IF h2s = <<>> THEN acc
    ELSE LET h2    == Head(h2s)
             name  == GetText(h2.name)
             texts == SiblingTexts(h2.siblings, name)
             title   == IF Len(texts) >= 1 THEN texts[1] ELSE Empty
             company == IF Len(texts) >= 2 THEN texts[2] ELSE Empty
         IN  IF \/ Len(name) < MinDetailNameLen \/ SkipText(<<name>>)
                \/ Lower(name) \in acc.seen
             THEN Web3Headings(Tail(h2s), acc)
             ELSE Web3Headings(Tail(h2s),
                     [speakers |-> Append(acc.speakers,
                                      Speaker(name, title, company, None, None, None)),
                      seen |-> acc.seen \cup {Lower(name)}])

\* scrape_web3hubdavos_speakers
scrape_web3hubdavos_speakers(available, browser) ==
    IF ~available THEN <<>>
    ELSE IF browser.failed THEN <<>>
    ELSE LET linked == Web3Links(browser.links, [speakers |-> <<>>, seen |-> {}])
         IN  IF Len(linked.speakers) < MinManyLinks
             THEN Web3Headings(browser.h2s, linked).speakers
             ELSE linked.speakers

----------------------------------------------------------------------------
(* scrapers/generic.py: scrape_speakers *)

\* the registered url patterns, in the order scrape_speakers tests them
Sites == <<"coindesk.com", "dcblockchainsummit.com", "btcprague.com", "ethdenver.com">>

\* if speakers: return speakers, taken whatever the extractor returned
SiteFinal_always(found) == TRUE

\* if speakers: return speakers (lines 541, 547, 553, 559)
SiteFinal(found) == found # <<>>

\* response.raise_for_status() raising for server errors only
RaiseForStatus_5xx(code) == 500 <= code /\ code < 600

\* response.raise_for_status() raises HTTPError for a 4xx or 5xx status
RaiseForStatus(code) == 400 <= code /\ code < 600

\* the except clause of lines 573-575 is entered
FetchFailed(response) == response.exc # "none" \/ RaiseForStatus(response.code)

\* if nextjs_speakers never taken
Authoritative_never(found) == FALSE

\* if nextjs_speakers (line 579)
Authoritative(found) == found # <<>>

LowCount     == 50
JsHeavyCount == 100
FewSpeakers  == 5

\* if the cheaper paths were tried whatever the count
TryCheaper_always(n) == TRUE

\* if len(unique_speakers) <= 5 (line 624)
TryCheaper(n) == n <= FewSpeakers

\* if the page's JS-framework markers were not looked at
EscalationTrigger_lowOnly(n, js_heavy) == n <= LowCount

\* the condition of line 622
EscalationTrigger(n, js_heavy) == n <= LowCount \/ (js_heavy /\ n < JsHeavyCount)

\* an escalation result is returned when it is at least as long
Beats_orEqual(found, best) == found # <<>> /\ Len(found) >= Len(best)

\* x and len(x) > len(unique_speakers) (lines 627, 635, 643)
Beats(found, best) == found # <<>> /\ Len(found) > Len(best)

(* Inputs *)

AB1 == <<"A", " ", "b">>
AB2 == <<"A", " ", "B">>
BA  == <<"B", " ", "a">>

\* the sites that have an extractor module under scrapers/
ExtractorSites == {"coindesk.com", "dcblockchainsummit.com", "btcprague.com",
                   "ethdenver.com", "web3hubdavos.com"}

\* a url is the set of the site names it contains
Urls == {{}, {"dcblockchainsummit.com"}, {"btcprague.com"},
         {"coindesk.com", "ethdenver.com"}, {"web3hubdavos.com"}}

Responses ==
    {[exc |-> "ConnectionError", code |-> 0], [exc |-> "Timeout", code |-> 0]}
        \cup {[exc |-> "none", code |-> c] : c \in {200, 304, 404, 500}}

PageInputs ==
    {[ok |-> TRUE,  h1 |-> AB1,        title |-> None],
     [ok |-> TRUE,  h1 |-> AB2,        title |-> None],
     [ok |-> TRUE,  h1 |-> None,       title |-> BA \o <<" ", "-", " ", "a">>],
     [ok |-> TRUE,  h1 |-> <<"A">>,    title |-> None],
     [ok |-> FALSE, h1 |-> AB1,        title |-> None]}

PageLists == ListsUpTo(PageInputs, MaxPages)

BrowserInputs ==
    {[failed |-> TRUE, pages |-> <<>>]}
        \cup {[failed |-> FALSE, pages |-> pages] : pages \in PageLists}

BtcLink(href, paged, title, text, role, detail) ==
    [href |-> href, paged |-> paged, title |-> title, text |-> text,
     role |-> role, detail |-> detail]

BtcLinkInputs ==
    {BtcLink("u1", FALSE, AB1, Empty, Empty, <<"d">>),
     BtcLink("u2", FALSE, Empty, <<" ">> \o AB2, <<"r">>, Empty),
     BtcLink("u1", FALSE, BA, Empty, Empty, Empty),
     BtcLink("u3", TRUE, BA, Empty, Empty, Empty),
     BtcLink("u4", FALSE, <<"c", "o", "o", "k", "i", "e">>, Empty, Empty, Empty),
     BtcLink("u5", FALSE, Empty, <<"A">>, Empty, Empty)}

BtcFeaturedInputs ==
    {[name |-> None, role |-> Empty], [name |-> AB1, role |-> <<"r">>],
     [name |-> BA, role |-> Empty]}

BtcBrowserInputs ==
    {[failed |-> TRUE, pages |-> <<>>, featured |-> [name |-> None, role |-> Empty]]}
        \cup {[failed |-> FALSE, pages |-> links, featured |-> featured] :
                 links \in ListsUpTo(BtcLinkInputs, MaxPages),
                 featured \in BtcFeaturedInputs}

Web3LinkInputs ==
    {<<AB1, <<"D", "E", "O">>, <<"a", "b">>>>,
     <<<<" ">> \o AB2, <<"c", "e", "o">>>>,
     <<BA, <<"a", "b">>>>,
     <<BA>>,
     <<<<"A">>, <<"b">>>>}

Web3HeadingInputs ==
    {[name |-> AB1, siblings |-> <<>>],
     [name |-> BA \o <<" ">>, siblings |-> <<<<"a", "b">>, <<"B", " ", "a">>, <<"a", "b", "a">>>>]}

Web3BrowserInputs ==
    {[failed |-> TRUE, links |-> <<>>, h2s |-> <<>>]}
        \cup {[failed |-> FALSE, links |-> links, h2s |-> h2s] :
                 links \in ListsUpTo(Web3LinkInputs, MaxPages),
                 h2s \in ListsUpTo(Web3HeadingInputs, MaxPages)}

SitemapInputs ==
    {[ok |-> FALSE, pages |-> <<>>]}
        \cup {[ok |-> TRUE, pages |-> pages] : pages \in PageLists}

\* custom_fields and its two fields
NoField      == [shape |-> "missing", value |-> None]
Field(value) == [shape |-> "object", value |-> value]
NoCustomFields == [shape |-> "missing", speaker_job |-> NoField, speaker_company |-> NoField]
CustomFields(job, comp) == [shape |-> "object", speaker_job |-> job, speaker_company |-> comp]

\* an entry with the three name keys only
Entry(title, name, fullName) ==
    [obj |-> TRUE, title |-> title, name |-> name, fullName |-> fullName,
     custom_fields |-> NoCustomFields,
     tagLine |-> None, title_position |-> None, jobTitle |-> None,
     company |-> None, organization |-> None]

EntryInputs ==
    {Entry(AB1, None, None),
     Entry(None, AB2, None),
     Entry(Empty, None, BA),
     Entry(<<" ">>, AB1, None),
     Entry(None, None, Empty)}

SpeakerList(entries) == [shape |-> IF entries = <<>> THEN "falsy" ELSE "list", items |-> entries]

NextBlock(script, data, props, pageProps, speakers_data) ==
    [script |-> script, data |-> data, props |-> props, pageProps |-> pageProps,
     speakers |-> speakers_data]

\* "__NEXT" in response.text holds for every page with a __NEXT_DATA__ block
NextBlocks(js_heavy) ==
    {NextBlock("absent", "other", "missing", "missing", SpeakerList(<<>>))}
        \cup (IF js_heavy
              THEN {NextBlock("badjson", "other", "missing", "missing", SpeakerList(<<>>)),
                    NextBlock("json", "other", "missing", "missing", SpeakerList(<<>>)),
                    NextBlock("json", "object", "missing", "missing", SpeakerList(<<>>))}
                     \cup {NextBlock("json", "object", "object", "object", SpeakerList(entries)) :
                              entries \in ListsUpTo(EntryInputs, MaxPages)}
              ELSE {})

ElementorCard(h2, widgets) ==
    [elementor |-> TRUE, h2 |-> h2, widgets |-> widgets, by_sel |-> <<>>, by_tag |-> <<>>,
     title_sel |-> <<>>, company_sel |-> <<>>, parts |-> <<>>]
GenericCard(by_sel, by_tag) ==
    [elementor |-> FALSE, h2 |-> <<>>, widgets |-> <<>>, by_sel |-> by_sel, by_tag |-> by_tag,
     title_sel |-> <<>>, company_sel |-> <<>>, parts |-> <<>>]
DetailedCard(by_sel, title_sel, company_sel, parts) ==
    [elementor |-> FALSE, h2 |-> <<>>, widgets |-> <<>>, by_sel |-> by_sel, by_tag |-> <<>>,
     title_sel |-> title_sel, company_sel |-> company_sel, parts |-> parts]

CardInputs ==
    {ElementorCard(<<AB1, <<"b">>>>, <<<<"a">>>>),
     ElementorCard(<<AB2 \o <<ZWSP>>>>, <<>>),
     ElementorCard(<<<<" ">>>>, <<<<"a">>>>),
     GenericCard(<<<<"a", " ", "b">>, BA>>, <<>>),
     GenericCard(<<<<"A">>>>, <<<<"b">>, AB1>>)}

\* six page-builder cards with six different names
SixNames == <<AB1, BA, <<"a", " ", "a">>, <<"b", " ", "b">>, <<"a", "b">>, <<"b", "a">>>>
SixCards == [i \in 1..6 |-> ElementorCard(<<SixNames[i]>>, <<>>)]

\* n page-builder cards with n different names
DigitChars  == <<"0", "1", "2", "3", "4", "5", "6", "7", "8", "9">>
Numeral(i)  == <<DigitChars[(i \div 100) + 1], DigitChars[((i \div 10) % 10) + 1],
                 DigitChars[(i % 10) + 1]>>
BulkCards(n) == [i \in 1..n |-> ElementorCard(<<<<"N">> \o Numeral(i)>>, <<>>)]

\* the card counts on either side of the thresholds of line 622
BulkCounts == {LowCount, LowCount + 1, JsHeavyCount - 1, JsHeavyCount}

CardLists ==
    ListsUpTo(CardInputs, MaxCards) \cup {SixCards}
        \cup {BulkCards(n) : n \in BulkCounts}

\* five page-builder cards: a name, a company and a job title each
FiveNames == <<AB1, BA, <<"a", " ", "a">>, <<"b", " ", "b">>, <<"a", "b">>>>
FiveCards ==
    [i \in 1..5 |-> ElementorCard(<<FiveNames[i], <<"c">> \o Numeral(i)>>,
                                  <<<<"t">> \o Numeral(i)>>)]

\* a page whose k-th selector alone matches, giving cards
Matched(k, cards) ==
    [by_selector |-> [i \in 1..Len(SPEAKER_SELECTORS) |-> IF i = k THEN cards ELSE <<>>],
     containers  |-> <<>>]

\* a page on which two selectors match
MatchedTwice(k, cards, later, more) ==
    [by_selector |-> [i \in 1..Len(SPEAKER_SELECTORS) |->
                         IF i = k THEN cards ELSE IF i = later THEN more ELSE <<>>],
     containers  |-> <<>>]

\* a page on which no selector matches
Unmatched(containers) ==
    [by_selector |-> [i \in 1..Len(SPEAKER_SELECTORS) |-> <<>>],
     containers  |-> containers]

Container(tag, has_image, text_len, parent, card) ==
    [tag |-> tag, has_image |-> has_image, text_len |-> text_len,
     parent |-> parent, card |-> card]

\* a wrapper with a lone promotional block, then a grid of three items of
\* which the second has no image
GridContainers ==
    <<Container("div", TRUE, MaxCardText, "body", GenericCard(<<>>, <<>>)),
      Container("div", TRUE, MinCardText + 1, "main", GenericCard(<<>>, <<AB1>>)),
      Container("li", TRUE, MinCardText + 1, "ul", GenericCard(<<AB1>>, <<>>)),
      Container("li", FALSE, MinCardText, "ul", GenericCard(<<>>, <<BA>>)),
      Container("li", TRUE, MaxCardText - 1, "ul", GenericCard(<<AB2>>, <<AB1>>))>>

\* the parsed pages drawn by scrape_speakers
Soups ==
    {Matched(1, cards) : cards \in CardLists \ {<<>>}}
        \cup {Matched(Len(SPEAKER_SELECTORS), FiveCards), Matched(14, SixCards)}
        \cup {MatchedTwice(2, <<ElementorCard(<<<<" ">>>>, <<>>)>>, 15, SixCards),
              MatchedTwice(10, <<GenericCard(<<BA>>, <<>>)>>, 16, FiveCards)}
        \cup {Unmatched(<<>>), Unmatched(GridContainers),
              Unmatched(SubSeq(GridContainers, 1, 4))}

\* a selector with fewer than three matches, then one with three
TwoSelectors ==
    <<<<ElementorCard(<<BA>>, <<>>)>>,
      <<ElementorCard(<<AB1>>, <<>>), GenericCard(<<BA>>, <<>>), ElementorCard(<<AB2>>, <<>>)>>>>

RenderedInputs ==
    {[failed |-> TRUE, ethcc |-> <<>>, streamed |-> <<>>, by_selector |-> <<>>]}
        \cup {[failed |-> FALSE, ethcc |-> e, streamed |-> <<>>, by_selector |-> <<>>] :
                 e \in ListsUpTo({None, AB1, <<" ">> \o AB2}, MaxPages)}
        \cup {[failed |-> FALSE, ethcc |-> <<None>>, streamed |-> s, by_selector |-> <<>>] :
                 s \in ListsUpTo({AB1, AB2, <<" ">>}, MaxPages)}
        \cup {[failed |-> FALSE, ethcc |-> <<>>, streamed |-> <<>>, by_selector |-> s] :
                 s \in {<<>>, <<SixCards>>, TwoSelectors}}

\* the rendered pages drawn by scrape_speakers
RenderedPages ==
    {[failed |-> TRUE, ethcc |-> <<>>, streamed |-> <<>>, by_selector |-> <<>>]}
        \cup {[failed |-> FALSE, ethcc |-> e, streamed |-> <<>>, by_selector |-> <<>>] :
                 e \in {<<None, AB1>>, <<AB1, <<" ">> \o AB2, BA>>}}
        \cup {[failed |-> FALSE, ethcc |-> <<None>>, streamed |-> s, by_selector |-> <<>>] :
                 s \in {<<AB1>>, <<AB1, AB2>>, <<AB1, <<" ">>, BA>>}}
        \cup {[failed |-> FALSE, ethcc |-> <<>>, streamed |-> <<>>, by_selector |-> s] :
                 s \in {<<>>, <<SixCards>>, TwoSelectors}}

\* the i-th detail page of the site drawn by scrape_speakers
PageAt(i) ==
    CASE i % 3 = 1 -> [ok |-> TRUE, h1 |-> AB1,  title |-> None]
      [] i % 3 = 2 -> [ok |-> TRUE, h1 |-> AB2,  title |-> None]
      [] OTHER     -> [ok |-> TRUE, h1 |-> None, title |-> BA \o <<" ", "-", " ", "a">>]

PagesFrom(k) == [i \in 1..k |-> PageAt(i)]

Reverse(list) == [i \in 1..Len(list) |-> list[Len(list) + 1 - i]]

\* what _extract_sitemap_speakers returns to scrape_speakers
SitemapResults ==
    {_extract_sitemap_speakers([ok |-> FALSE, pages |-> <<>>])}
        \cup {_extract_sitemap_speakers([ok |-> TRUE, pages |-> PagesFrom(k)]) :
                 k \in 0..MaxPages}

\* what _extract_wordpress_paginated_speakers returns to scrape_speakers
WordPressResults ==
    {_extract_wordpress_paginated_speakers(PagesFrom(k)) : k \in 0..MaxPages}
        \cup {_extract_wordpress_paginated_speakers(Reverse(PagesFrom(k))) :
                 k \in 0..MaxPages}

(* The function, one action per block of its body *)

Init ==
    /\ pc = "coindesk"
    /\ url \in Urls
    /\ playwright_available \in BOOLEAN
    /\ calls = <<>> /\ status = NoResponse
    /\ is_js_heavy = FALSE /\ has_pagination = FALSE
    /\ speakers = <<>> /\ unique_speakers = <<>>
    /\ escalation = [path |-> "none", speakers |-> <<>>]
    /\ result = <<>> /\ result_src = "none" /\ nextjs_speakers = <<>>
    /\ soup = NoSoup /\ selection = NotSelected
    /\ DedupeIdle /\ ModelIdle /\ ApplyIdle /\ ScrollIdle /\ EnrichIdle

\* return found: the function ends with result found
Return(found, src) ==
    /\ pc' = "done" /\ result' = found /\ result_src' = src

\* one block of lines 538-560: the extractor of site has returned found
RegistryBlock(site, next, found) ==
    /\ calls' = Append(calls, site)
    /\ speakers' = found
    /\ IF SiteFinal(found) THEN Return(found, "site")
       ELSE pc' = next /\ UNCHANGED <<result, result_src>>

SkipBlock(next) ==
    /\ pc' = next /\ UNCHANGED <<calls, speakers, result, result_src>>

\* lines 538-542
CheckCoindesk ==
    /\ pc = "coindesk"
    /\ IF Sites[1] \in url
       THEN \E browser \in BrowserInputs :
               RegistryBlock(Sites[1], "dcblockchainsummit",
                   scrape_consensus_speakers(playwright_available, browser))
       ELSE SkipBlock("dcblockchainsummit")
    /\ UNCHANGED <<url, playwright_available, soup, selection, nextjs_speakers, status, is_js_heavy, has_pagination,
                   unique_speakers, escalation, dedupeVars, modelVars, applyVars,
                   scrollVars, enrichVars>>

\* lines 544-548
CheckDcBlockchainSummit ==
    /\ pc = "dcblockchainsummit"
    /\ IF Sites[2] \in url
       THEN \E browser \in BrowserInputs :
               RegistryBlock(Sites[2], "btcprague",
                   scrape_dcblockchainsummit_speakers(playwright_available, browser))
       ELSE SkipBlock("btcprague")
    /\ UNCHANGED <<url, playwright_available, soup, selection, nextjs_speakers, status, is_js_heavy, has_pagination,
                   unique_speakers, escalation, dedupeVars, modelVars, applyVars,
                   scrollVars, enrichVars>>

\* lines 550-554
CheckBtcPrague ==
    /\ pc = "btcprague"
    /\ IF Sites[3] \in url
       THEN \E browser \in BtcBrowserInputs :
               RegistryBlock(Sites[3], "ethdenver",
                   scrape_btcprague_speakers(playwright_available, browser))
       ELSE SkipBlock("ethdenver")
    /\ UNCHANGED <<url, playwright_available, soup, selection, nextjs_speakers, status, is_js_heavy, has_pagination,
                   unique_speakers, escalation, dedupeVars, modelVars, applyVars,
                   scrollVars, enrichVars>>

\* lines 556-560
CheckEthDenver ==
    /\ pc = "ethdenver"
    /\ IF Sites[4] \in url
       THEN \E browser \in BrowserInputs :
               RegistryBlock(Sites[4], "fetch",
                   scrape_ethdenver_speakers(playwright_available, browser))
       ELSE SkipBlock("fetch")
    /\ UNCHANGED <<url, playwright_available, soup, selection, nextjs_speakers, status, is_js_heavy, has_pagination,
                   unique_speakers, escalation, dedupeVars, modelVars, applyVars,
                   scrollVars, enrichVars>>

\* lines 562-575 and the two flags of lines 618-619, which only read response.text
Fetch ==
    /\ pc = "fetch"
    /\ calls' = Append(calls, "fetch")
    /\ \E response \in Responses :
          /\ status' = response
          /\ IF FetchFailed(response)
             THEN /\ Return(<<>>, "fetch_failed")
                  /\ UNCHANGED <<is_js_heavy, has_pagination>>
             ELSE /\ pc' = "nextjs"
                  /\ is_js_heavy' \in BOOLEAN
                  /\ has_pagination' \in BOOLEAN
                  /\ UNCHANGED <<result, result_src>>
    /\ UNCHANGED <<url, playwright_available, soup, selection, nextjs_speakers, speakers, unique_speakers, escalation,
                   dedupeVars, modelVars, applyVars,
                   scrollVars, enrichVars>>

\* lines 577-581
NextJs ==
    /\ pc = "nextjs"
    /\ calls' = Append(calls, "nextjs")
    /\ \E block \in NextBlocks(is_js_heavy) :
          LET returned == _extract_nextjs_speakers(block)
          IN  IF returned.raised
              THEN /\ pc' = "raised"
                   /\ UNCHANGED <<nextjs_speakers, result, result_src>>
              ELSE /\ nextjs_speakers' = returned.speakers
                   /\ IF Authoritative(nextjs_speakers')
                      THEN Return(nextjs_speakers', "nextjs")
                      ELSE pc' = "dom" /\ UNCHANGED <<result, result_src>>
    /\ UNCHANGED <<url, playwright_available, soup, selection, status, is_js_heavy, has_pagination,
                   speakers, unique_speakers, escalation, dedupeVars, modelVars, applyVars,
                   scrollVars, enrichVars>>

\* lines 583-614: the cards, their records, the inline deduplication
DomHeuristics ==
    /\ pc = "dom"
    /\ calls' = Append(calls, "dom")
    /\ soup' \in Soups
    /\ selection' = SelectCards(soup')
    /\ speakers' = CardSpeakers(selection'.cards)
    /\ unique_speakers' = InlineDedupe(speakers')
    /\ pc' = "sitemap"
    /\ UNCHANGED <<url, playwright_available, nextjs_speakers, status, is_js_heavy, has_pagination,
                   escalation, result, result_src, dedupeVars, modelVars, applyVars,
                   scrollVars, enrichVars>>

\* lines 622-629
Sitemap ==
    /\ pc = "sitemap"
    /\ IF /\ EscalationTrigger(Len(unique_speakers), is_js_heavy)
          /\ TryCheaper(Len(unique_speakers))
       THEN \E sitemap_speakers \in SitemapResults :
                   /\ calls' = Append(calls, "sitemap")
                   /\ escalation' = [path |-> "sitemap", speakers |-> sitemap_speakers]
                   /\ IF Beats(sitemap_speakers, unique_speakers)
                      THEN Return(sitemap_speakers, "sitemap")
                      ELSE pc' = "wordpress" /\ UNCHANGED <<result, result_src>>
       ELSE pc' = "wordpress" /\ UNCHANGED <<calls, escalation, result, result_src>>
    /\ UNCHANGED <<url, playwright_available, soup, selection, nextjs_speakers, status, is_js_heavy, has_pagination,
                   speakers, unique_speakers, dedupeVars, modelVars, applyVars,
                   scrollVars, enrichVars>>

\* lines 631-637
WordPress ==
    /\ pc = "wordpress"
    /\ IF /\ EscalationTrigger(Len(unique_speakers), is_js_heavy)
          /\ TryCheaper(Len(unique_speakers))
          /\ has_pagination
       THEN \E wp_speakers \in WordPressResults :
                   /\ calls' = Append(calls, "wordpress")
                   /\ escalation' = [path |-> "wordpress", speakers |-> wp_speakers]
                   /\ IF Beats(wp_speakers, unique_speakers)
                      THEN Return(wp_speakers, "wordpress")
                      ELSE pc' = "playwright" /\ UNCHANGED <<result, result_src>>
       ELSE pc' = "playwright" /\ UNCHANGED <<calls, escalation, result, result_src>>
    /\ UNCHANGED <<url, playwright_available, soup, selection, nextjs_speakers, status, is_js_heavy, has_pagination,
                   speakers, unique_speakers, dedupeVars, modelVars, applyVars,
                   scrollVars, enrichVars>>

\* lines 639-648
Playwright ==
    /\ pc = "playwright"
    /\ IF /\ EscalationTrigger(Len(unique_speakers), is_js_heavy)
          /\ playwright_available /\ is_js_heavy
       THEN \E page \in RenderedPages :
               LET playwright_speakers == _scrape_with_playwright(playwright_available, page)
               IN  /\ calls' = Append(calls, "playwright")
                   /\ escalation' = [path |-> "playwright", speakers |-> playwright_speakers]
                   /\ IF Beats(playwright_speakers, unique_speakers)
                      THEN Return(playwright_speakers, "playwright")
                      ELSE Return(unique_speakers, "heuristic")
       ELSE Return(unique_speakers, "heuristic") /\ UNCHANGED <<calls, escalation>>
    /\ UNCHANGED <<url, playwright_available, soup, selection, nextjs_speakers, status, is_js_heavy, has_pagination,
                   speakers, unique_speakers, dedupeVars, modelVars, applyVars,
                   scrollVars, enrichVars>>

Next ==
    \/ CheckCoindesk \/ CheckDcBlockchainSummit \/ CheckBtcPrague \/ CheckEthDenver
    \/ Fetch \/ NextJs \/ DomHeuristics \/ Sitemap \/ WordPress \/ Playwright

Spec == Init /\ [][Next]_vars

----------------------------------------------------------------------------
(* The functions of the scrapers on drawn arguments *)

Shapes == {"missing", "object", "other"}

\* blocks of every shape around one well-formed entry
ShapeBlocks ==
    {NextBlock(script, data, props, pageProps, [shape |-> shape, items |-> items]) :
        script \in {"absent", "badjson", "json"}, data \in {"object", "other"},
        props \in Shapes, pageProps \in Shapes,
        shape \in {"missing", "falsy", "other"}, items \in {<<>>}}

TitleT == <<"T">>
NameN  == <<"N">>
FullF  == <<"F">>

\* entries over the three name keys
NameEntries ==
    {Entry(title, name, fullName) :
        title \in {None, Empty, TitleT}, name \in {None, Empty, NameN},
        fullName \in {None, Empty, FullF}}

FieldInputs(v) ==
    {NoField, Field(None), Field(Empty), Field(v), [shape |-> "other", value |-> v]}

CustomFieldInputs ==
    {NoCustomFields,
     [shape |-> "other", speaker_job |-> NoField, speaker_company |-> NoField]}
        \cup {CustomFields(job, comp) :
                 job \in FieldInputs(<<"j", "o", "b">>), comp \in FieldInputs(<<"c", "o">>)}

\* entries named by key name, over the keys of job title and company
FieldEntries ==
    {[obj |-> TRUE, title |-> None, name |-> NameN, fullName |-> None,
      custom_fields |-> cf,
      tagLine |-> tagLine, title_position |-> title_position, jobTitle |-> jobTitle,
      company |-> company, organization |-> organization] :
        cf \in CustomFieldInputs,
        tagLine \in {None, Empty, <<"t">>}, title_position \in {None, <<"p">>},
        jobTitle \in {None, <<"J">>},
        company \in {None, Empty, <<"c">>}, organization \in {None, <<"o">>}}

\* a value that is no object where an entry is expected
NonObjectEntry == [Entry(None, None, None) EXCEPT !.obj = FALSE]

MappingBlocks ==
    {NextBlock("json", "object", "object", "object", SpeakerList(<<s>>)) :
        s \in NameEntries \cup FieldEntries \cup {NonObjectEntry}}
      \cup {NextBlock("json", "object", "object", "object", SpeakerList(entries)) :
               entries \in ListsUpTo(EntryInputs \cup {NonObjectEntry}, MaxPages)}

NextjsArgs == ShapeBlocks \cup MappingBlocks

\* the urls of detail pages, as tokens
DetailUrls == {"u1", "u2"}

\* the elements of a list
Range(list) == {list[i] : i \in 1..Len(list)}

\* the orders in which iterating a Python set of strings can yield its
\* elements: the order follows the strings' hashes, which differ from one
\* interpreter run to the next
SetOrders(set) ==
    {order \in [1..Cardinality(set) -> set] :
        \A i, j \in 1..Cardinality(set) : i # j => order[i] # order[j]}

\* the pages behind the urls of order
Visit(order, site) == [i \in 1..Len(order) |-> site[order[i]]]

(* The argument of an extractor that enumerates detail pages is a record
     available : PLAYWRIGHT_AVAILABLE
     failed    : the browser raises
     links     : the hrefs of the speaker links of the listing, document order
     site      : the detail page behind each url *)
LinkedArgs ==
    [available : BOOLEAN, failed : BOOLEAN,
     links : ListsUpTo(DetailUrls, MaxPages), site : [DetailUrls -> PageInputs]]

\* the argument of _extract_wordpress_paginated_speakers: the hrefs of the
\* speaker links of the archive pages in document order, and the detail page
\* behind each url
ArchiveArgs ==
    [links : ListsUpTo(DetailUrls, MaxPages), site : [DetailUrls -> PageInputs]]

\* the words the texts given to _looks_like_name are made of
NameWords ==
    {<<"J", "a", "n", "e">>,
     <<"D", "o", "e">>,
     <<"j", "a", "n", "e">>,
     <<"A", "c", "m", "e">>,
     <<"V", "e", "n", "t", "u", "r", "e", "s">>,
     <<"v", "e", "n", "t", "u", "r", "e", "s">>,
     <<"A", "S", "S", "E", "T">>,
     <<"o", "f">>,
     <<"A", "N", "D">>,
     <<"@">>,
     <<"9", "a">>,
     <<"O", "f">>}

\* the words of words with one space between them
RECURSIVE Spaced(_)
Spaced(words) ==
    IF words = <<>> THEN <<>>
    ELSE IF Len(words) = 1 THEN words[1]
    ELSE words[1] \o <<" ">> \o Spaced(Tail(words))

JaneDoeLong  == Spaced(<<<<"J", "a", "n", "e">>, <<"D", "o", "e">>, <<"S", "m", "i", "t", "h">>, <<"E", "x", "t", "r", "a">>, <<"W", "o", "r", "d", "s">>, <<"H", "e", "r", "e">>>>)
AcmeVentures == Spaced(<<<<"A", "c", "m", "e">>, <<"V", "e", "n", "t", "u", "r", "e", "s">>>>)
JaneDoeLower == Spaced(<<<<"j", "a", "n", "e">>, <<"d", "o", "e">>>>)

MaxTokens == 6

\* texts of up to two words of NameWords, the same between and around more
\* whitespace, and texts of three to MaxTokens words
NameTexts ==
    LET short  == {Spaced(words) : words \in ListsUpTo(NameWords, 2)}
        padded == {<<" ">> \o t : t \in short} \cup {t \o <<" ">> : t \in short}
                      \cup {a \o <<" ", " ">> \o b : a, b \in {<<"J", "a", "n", "e">>, <<"o", "f">>}}
        long   == {Spaced([i \in 1..n |-> IF i = at THEN w ELSE <<"D", "o", "e">>]) :
                      n \in 3..MaxTokens, at \in 1..MaxTokens,
                      w \in {<<"J", "a", "n", "e">>, <<"j", "a", "n", "e">>, <<"o", "f">>, <<"A", "S", "S", "E", "T">>}}
    IN  short \cup padded \cup long \cup {JaneDoe, JaneDoeLong, AcmeVentures, JaneDoeLower}

\* the pieces the titles given to _extract_company_from_title are made of
TitlePieces ==
    {<<"C", "E", "O">>,
     <<"C", "h", "a", "t">>,
     <<"A", "c", "m", "e">>,
     <<"a", "t">>,
     <<"@">>,
     <<",">>,
     <<"|">>,
     <<"-">>}

CeoAtAcmeCorp    == Spaced(<<<<"C", "E", "O">>, <<"a", "t">>, <<"A", "c", "m", "e">>, <<"C", "o", "r", "p">>>>)
CeoCommaAcmeCorp == Spaced(<<<<"C", "E", "O", ",">>, <<"A", "c", "m", "e">>, <<"C", "o", "r", "p">>>>)
Ceo              == <<"C", "E", "O">>
CeoATAcme        == Spaced(<<<<"C", "E", "O">>, <<"A", "T">>, <<"A", "c", "m", "e">>>>)
ChatLeadAcmeCorp == Spaced(<<<<"C", "h", "a", "t">>, <<"L", "e", "a", "d", ",">>, <<"A", "c", "m", "e">>, <<"C", "o", "r", "p">>>>)

MaxPieces == 3

\* the pieces of parts one after the other
RECURSIVE Concat(_)
Concat(parts) ==
    IF parts = <<>> THEN <<>> ELSE Head(parts) \o Concat(Tail(parts))

\* titles of up to MaxPieces pieces, with and without a space between the
\* pieces, the same with whitespace at the end, and the examples
TitleTexts ==
    LET lists  == ListsUpTo(TitlePieces, MaxPieces)
        spaced == {Spaced(l) : l \in lists}
        tight  == {Concat(l) : l \in lists}
        mixed  == {l[1] \o l[2] \o <<" ">> \o l[3] : l \in {l \in lists : Len(l) = 3}}
        ended  == {t \o e : t \in spaced, e \in {<<" ">>, <<" ", " ">>}}
    IN  spaced \cup tight \cup mixed \cup ended
            \cup {CeoAtAcmeCorp, CeoCommaAcmeCorp, Ceo, CeoATAcme, ChatLeadAcmeCorp}

MaxContainers == 3

\* whether a container holds an image, and how long its text is
ContainerLooks ==
    {<<TRUE, MinCardText + 1>>, <<TRUE, MinCardText>>, <<FALSE, MinCardText + 1>>}

ContainerInputs ==
    {Container(tag, look[1], look[2], parent, GenericCard(<<>>, <<>>)) :
        tag \in {"div", "li"}, look \in ContainerLooks, parent \in {"p1", "p2"}}

\* three children of parent
Triples(parent) ==
    {[i \in 1..3 |-> Container("div", looks[i][1], looks[i][2], parent,
                               GenericCard(<<>>, <<>>))] :
        looks \in [1..3 -> {<<TRUE, MaxCardText - 1>>, <<FALSE, MinCardText + 1>>,
                            <<TRUE, MaxCardText>>}]}

\* the containers of a page: up to MaxContainers of them, and pages with two
\* groups of three
ContainerLists ==
    ListsUpTo(ContainerInputs, MaxContainers)
        \cup {first \o second : first \in Triples("p1"), second \in Triples("p2")}

\* a text of n characters
Long(n) == [i \in 1..n |-> "x"]

\* a text of n characters that _looks_like_name accepts
NameOfLen(n) == <<"A", " ">> \o Long(n - 2)

Acme         == <<"A", "c", "m", "e">>
CeoAtJaneDoe == Spaced(<<Ceo, <<"a", "t">>, JaneDoe>>)

MaxTexts == 2

\* cards without the page-builder marker: the texts the name is looked for
\* in, and for a card named Jane Doe the texts its title and company are
\* looked for in
GenericCards ==
    LET names     == {JaneDoe, <<" ">> \o AB1 \o <<" ">>, JaneDoeLower,
                      NameOfLen(MaxNameTextLen - 1), NameOfLen(MaxNameTextLen)}
        headings  == {JaneDoe, JaneDoeLower, NameOfLen(MaxNameTextLen)}
        titles    == {Empty, JaneDoe, CeoAtJaneDoe, Ceo, Long(MaxTitleLen)}
        fragments == {JaneDoe, Ceo, Acme}
        leftovers == {<<>>} \cup {<<f>> : f \in fragments}
                         \cup {<<f, g>> : f \in fragments, g \in fragments}
                         \cup {<<Long(MaxPartLen), Acme>>}
    IN  {GenericCard(by_sel, by_tag) :
            by_sel \in ListsUpTo(names, MaxTexts), by_tag \in ListsUpTo(headings, MaxTexts)}
            \cup {DetailedCard(<<JaneDoe>>, title_sel, company_sel, parts) :
                     title_sel \in ListsUpTo(titles, MaxTexts) \cup {<<Long(MaxTitleLen - 1)>>},
                     company_sel \in {<<>>} \cup {<<f>> : f \in fragments},
                     parts \in leftovers}

\* the argument of an extractor that reads one rendered page
RenderedArgs(browsers) == [available : BOOLEAN, browser : browsers]

MaxRuns == 2

Callees == {"_extract_nextjs_speakers", "scrape_consensus_speakers",
            "scrape_dcblockchainsummit_speakers", "scrape_btcprague_speakers",
            "scrape_ethdenver_speakers", "scrape_web3hubdavos_speakers",
            "_scrape_with_playwright", "_extract_wordpress_paginated_speakers",
            "_looks_like_name", "_extract_company_from_title",
            "_fallback_speaker_detection", "_extract_speaker_from_card",
            "format_speakers_for_sheets"}

\* Speakers as the scrapers and the enrichment leave them: no name, one
\* token, three tokens; first and last name derived, or set to one or two
\* tokens.
ExportNames      == {Empty, <<"a">>, <<"b", " ", "a", " ", "a">>}
ExportFirstNames == {None, <<"b">>, <<"b", " ", "a">>}
ExportLastNames  == {None, <<"a">>}
ExportSpeakers ==
    {Speaker(name, None, None, None, fn, ln) :
        name \in ExportNames, fn \in ExportFirstNames, ln \in ExportLastNames}
SourceEvent == <<"e">>
ExportArgs  == ListsUpTo(ExportSpeakers, MaxRows)

Args(f) ==
    CASE f = "_extract_nextjs_speakers" -> NextjsArgs
      [] f = "scrape_consensus_speakers" -> LinkedArgs
      [] f = "scrape_dcblockchainsummit_speakers" -> RenderedArgs(BrowserInputs)
      [] f = "scrape_btcprague_speakers" -> RenderedArgs(BtcBrowserInputs)
      [] f = "scrape_ethdenver_speakers" -> LinkedArgs
      [] f = "scrape_web3hubdavos_speakers" -> RenderedArgs(Web3BrowserInputs)
      [] f = "_scrape_with_playwright" -> RenderedArgs(RenderedInputs)
      [] f = "_extract_wordpress_paginated_speakers" -> ArchiveArgs
      [] f = "_looks_like_name" -> NameTexts
      [] f = "_extract_company_from_title" -> TitleTexts
      [] f = "_fallback_speaker_detection" -> ContainerLists
      [] f = "_extract_speaker_from_card" -> GenericCards
      [] f = "format_speakers_for_sheets" -> ExportArgs

ApplyInit ==
    /\ callee \in Callees
    /\ arg \in Args(callee)
    /\ runs = 0 /\ ret = <<>> /\ ret_again = <<>>
    /\ OrchIdle /\ DedupeIdle /\ ModelIdle /\ ScrollIdle /\ EnrichIdle

\* one call of callee returns returned
Call(f, returned) ==
    /\ callee = f /\ runs < MaxRuns
    /\ runs' = runs + 1
    /\ IF runs = 0 THEN ret' = returned /\ UNCHANGED ret_again
       ELSE ret_again' = returned /\ UNCHANGED ret
    /\ UNCHANGED <<callee, arg, orchVars, dedupeVars, modelVars, scrollVars, enrichVars>>

\* _extract_nextjs_speakers(html, url) on a page whose block is arg
ApplyNextjs ==
    Call("_extract_nextjs_speakers", _extract_nextjs_speakers(arg))

\* scrape_consensus_speakers(url): speaker_urls is a set (lines 37, 64, 81)
ApplyConsensus ==
    /\ callee = "scrape_consensus_speakers"
    /\ \E order \in SetOrders(Range(arg.links)) :
          Call("scrape_consensus_speakers",
               scrape_consensus_speakers(arg.available,
                   [failed |-> arg.failed, pages |-> Visit(order, arg.site)]))

\* scrape_dcblockchainsummit_speakers(url)
ApplyDcBlockchainSummit ==
    /\ callee = "scrape_dcblockchainsummit_speakers"
    /\ Call("scrape_dcblockchainsummit_speakers",
            scrape_dcblockchainsummit_speakers(arg.available, arg.browser))

\* scrape_btcprague_speakers(url)
ApplyBtcPrague ==
    /\ callee = "scrape_btcprague_speakers"
    /\ Call("scrape_btcprague_speakers",
            scrape_btcprague_speakers(arg.available, arg.browser))

\* scrape_ethdenver_speakers(url): speaker_urls is a list made of a set
\* (lines 59-60, 68)
ApplyEthDenver ==
    /\ callee = "scrape_ethdenver_speakers"
    /\ \E order \in SetOrders(Range(arg.links)) :
          Call("scrape_ethdenver_speakers",
               scrape_ethdenver_speakers(arg.available,
                   [failed |-> arg.failed, pages |-> Visit(order, arg.site)]))

\* scrape_web3hubdavos_speakers(url)
ApplyWeb3HubDavos ==
    /\ callee = "scrape_web3hubdavos_speakers"
    /\ Call("scrape_web3hubdavos_speakers",
            scrape_web3hubdavos_speakers(arg.available, arg.browser))

\* _scrape_with_playwright(url)
ApplyPlaywright ==
    /\ callee = "_scrape_with_playwright"
    /\ Call("_scrape_with_playwright",
            _scrape_with_playwright(arg.available, arg.browser))

\* _extract_wordpress_paginated_speakers(base_url, headers): speaker_urls
\* is a set (lines 232, 259, 267)
ApplyWordPress ==
    /\ callee = "_extract_wordpress_paginated_speakers"
    /\ \E order \in SetOrders(Range(arg.links)) :
          Call("_extract_wordpress_paginated_speakers",
               _extract_wordpress_paginated_speakers(Visit(order, arg.site)))

\* _looks_like_name(text)
ApplyLooksLikeName ==
    /\ callee = "_looks_like_name"
    /\ Call("_looks_like_name", _looks_like_name(arg))

\* _extract_company_from_title(title)
ApplyCompanyFromTitle ==
    /\ callee = "_extract_company_from_title"
    /\ Call("_extract_company_from_title", _extract_company_from_title(arg))

\* _fallback_speaker_detection(soup)
ApplyFallback ==
    /\ callee = "_fallback_speaker_detection"
    /\ Call("_fallback_speaker_detection", _fallback_speaker_detection(arg))

\* _extract_speaker_from_card(card, source_url)
ApplyCard ==
    /\ callee = "_extract_speaker_from_card"
    /\ Call("_extract_speaker_from_card", _extract_speaker_from_card(arg))

\* export_to_sheet(arg, ...) followed by read_speakers_from_worksheet of the
\* same worksheet: the rows written and the speakers read back
ApplyExportAndRead ==
    /\ callee = "format_speakers_for_sheets"
    /\ Call("format_speakers_for_sheets",
            [rows |-> format_speakers_for_sheets(arg, SourceEvent),
             read |-> read_speakers_from_worksheet(Exported(arg, SourceEvent))])

ApplyNext ==
    \/ ApplyNextjs \/ ApplyConsensus \/ ApplyDcBlockchainSummit
    \/ ApplyBtcPrague \/ ApplyEthDenver \/ ApplyWeb3HubDavos \/ ApplyPlaywright
    \/ ApplyWordPress \/ ApplyLooksLikeName \/ ApplyCompanyFromTitle
    \/ ApplyFallback \/ ApplyCard \/ ApplyExportAndRead

ApplySpec == ApplyInit /\ [][ApplyNext]_vars

----------------------------------------------------------------------------
(* The scroll loop of _scrape_with_playwright (generic.py lines 61-83) *)

DefaultMaxScrolls == 50     \* max_scrolls: int = 50
SettledAfter      == 5      \* ... and scroll_count > 5
MaxGrowth         == 1      \* cards one scroll step can add

\* max_scrolls as callers pass it: no scrolling at all, a limit just past the
\* point where the loop may settle, and the default.
MaxScrollsArgs == {0, SettledAfter + 3, DefaultMaxScrolls}

\* What page.locator(...).count() can give after a step that saw `last` cards:
\* 0 (also the value of the except branch), the same count, or more.
CardCounts(last) == {0} \cup (last .. last + MaxGrowth)

\* while scroll_count < max_scrolls
KeepScrolling(count, limit) == count < limit

\* if card_count == last_card_count and scroll_count > 5: break
NoNewContent_settledOnly(seen, last, count) == count > SettledAfter
NoNewContent(seen, last, count) == seen = last /\ count > SettledAfter

ScrollInit ==
    /\ scroll_pc = "loop"
    /\ max_scrolls \in MaxScrollsArgs
    /\ scroll_count = 0
    /\ last_card_count = 0
    /\ card_count = 0
    /\ scrolls = 0
    /\ left_by = "none"
    /\ OrchIdle /\ DedupeIdle /\ ModelIdle /\ ApplyIdle /\ EnrichIdle

ScrollUnchanged == UNCHANGED <<max_scrolls, orchVars, dedupeVars, modelVars, applyVars, enrichVars>>

\* One pass through the body of the while: scroll, pause, count, then either
\* break or record the count and go round again.
ScrollStep ==
    /\ scroll_pc = "loop"
    /\ KeepScrolling(scroll_count, max_scrolls)
    /\ scrolls' = scrolls + 1
    /\ \E seen \in CardCounts(last_card_count) :
          /\ card_count' = seen
          /\ IF NoNewContent(seen, last_card_count, scroll_count)
             THEN /\ scroll_pc' = "scrolled"
                  /\ left_by' = "break"
                  /\ UNCHANGED <<last_card_count, scroll_count>>
             ELSE /\ last_card_count' = seen
                  /\ scroll_count' = scroll_count + 1
                  /\ UNCHANGED <<scroll_pc, left_by>>
    /\ ScrollUnchanged

\* page.evaluate raises (the page closed, the script timed out): the except of
\* line 123 ends the whole function with [].
ScrollRaises ==
    /\ scroll_pc = "loop"
    /\ KeepScrolling(scroll_count, max_scrolls)
    /\ scroll_pc' = "failed"
    /\ left_by' = "raised"
    /\ UNCHANGED <<scroll_count, last_card_count, card_count, scrolls>>
    /\ ScrollUnchanged

\* The loop condition is false: on to page.content().
ScrollEnd ==
    /\ scroll_pc = "loop"
    /\ ~KeepScrolling(scroll_count, max_scrolls)
    /\ scroll_pc' = "scrolled"
    /\ left_by' = "limit"
    /\ UNCHANGED <<scroll_count, last_card_count, card_count, scrolls>>
    /\ ScrollUnchanged

ScrollNext == ScrollStep \/ ScrollRaises \/ ScrollEnd

ScrollSpec == ScrollInit /\ [][ScrollNext]_vars

\* The interpreter keeps executing the loop: a step that can be taken is taken.
ScrollFairSpec == ScrollSpec /\ WF_vars(ScrollNext)

----------------------------------------------------------------------------
(* enrich_speakers and _enrich_batch (enrichment/apollo.py) *)

BATCH_SIZE       == 10      \* BATCH_SIZE = 10
RATE_LIMIT_DELAY == 3       \* RATE_LIMIT_DELAY = 3.0
RateLimitWait    == 60      \* time.sleep(60)
TooManyRequests  == 429     \* response.status_code == 429
MaxBatches       == 3       \* batches of the longest list

\* Lengths of the list passed in: empty, one speaker, one full batch, a full
\* batch and one more, and MaxBatches batches of which the last holds one.
EnrichSizes == {0, 1, BATCH_SIZE, BATCH_SIZE + 1, (MaxBatches - 1) * BATCH_SIZE + 1}

FoundEmail == <<"j", "@", "x">>

\* The list as the scrapers hand it over: nobody has an email yet.
Scraped(n) == [k \in 1..n |-> [id |-> k, email |-> None]]

\* What requests.post can do: answer with a status, or raise a
\* ConnectionError / Timeout and give no answer.
NoAnswer == 0
Answers  == {200, TooManyRequests, 500, NoAnswer}

\* Bodies of a 200 answer for a batch of b speakers: a match for everyone, no
\* "matches" at all, one match too many, a null in second place, a match that
\* is no object in second place, and a body that is no object.
Bodies(b) ==
    { [object |-> TRUE,  matches |-> [k \in 1..b |-> "match"]],
      [object |-> TRUE,  matches |-> <<>>],
      [object |-> TRUE,  matches |-> [k \in 1..(b + 1) |-> "match"]],
      [object |-> TRUE,  matches |-> <<"match", "null", "match">>],
      [object |-> TRUE,  matches |-> <<"match", "text", "match">>],
      [object |-> FALSE, matches |-> <<>>] }

\* speakers[i:i + BATCH_SIZE], as the positions of the list it covers
BatchOf(list, i) ==
    {k \in 1..Len(list) : i < k /\ k <= i + BATCH_SIZE}

\* How far the loop of lines 116-140 gets: it stops after the batch's last
\* speaker, after the last match, or at the first match whose .get raises.
ParsedUpTo(body, b) ==
    LET n == IF Len(body.matches) < b THEN Len(body.matches) ELSE b
        bad == {k \in 1..n : body.matches[k] = "text"}
    IN  IF bad = {} THEN n ELSE (CHOOSE k \in bad : \A j \in bad : k <= j) - 1

ParseRaises(body, b) ==
    \/ ~body.object
    \/ \E k \in 1..Len(body.matches) : k <= b /\ body.matches[k] = "text"

\* Lines 114-140 applied to the batch that starts after position i.
Parsed(list, i, body) ==
    IF ~body.object THEN list
    ELSE LET upto == ParsedUpTo(body, Cardinality(BatchOf(list, i)))
         IN  [k \in 1..Len(list) |->
                 IF i < k /\ k <= i + upto /\ body.matches[k - i] = "match"
                 THEN [list[k] EXCEPT !.email = FoundEmail]
                 ELSE list[k]]

\* except requests.exceptions.HTTPError: if response.status_code == 429
Retryable_anyError(code) == code \in {TooManyRequests, 500}
Retryable(code) == code = TooManyRequests

\* except Exception (line 50)
Handles_requestErrors(exc) == exc \in {"HTTPError", "ConnectionError"}
Handles(exc) == exc \in {"HTTPError", "ConnectionError", "AttributeError"}

EnrichInit ==
    /\ enrich_pc = "start"
    /\ api_key \in BOOLEAN
    /\ roster \in {Scraped(n) : n \in EnrichSizes}
    /\ batch_i = 0
    /\ api_log = <<>>
    /\ batch_log = <<>>
    /\ enrich_ret = <<>>
    /\ OrchIdle /\ DedupeIdle /\ ModelIdle /\ ApplyIdle /\ ScrollIdle

EnrichUnchanged == UNCHANGED <<api_key, orchVars, dedupeVars, modelVars, applyVars, scrollVars>>

\* _enrich_batch is over for the batch at batch_i, by return or by exception.
BatchOver(how, exc) ==
    /\ batch_log' = Append(batch_log, [i |-> batch_i, size |-> Cardinality(BatchOf(roster, batch_i)),
                                       how |-> how])
    /\ enrich_pc' = IF exc = "none" \/ Handles(exc) THEN "between" ELSE "raised"

\* The 200 answer is parsed into the speakers of the batch.
Parse(body) ==
    /\ roster' = Parsed(roster, batch_i, body)
    /\ IF ParseRaises(body, Cardinality(BatchOf(roster, batch_i)))
       THEN BatchOver("parse_error", "AttributeError")
       ELSE BatchOver("parsed", "none")

\* Lines 29-36: nothing to do without a key or without speakers.
EnrichStart ==
    /\ enrich_pc = "start"
    /\ IF ~api_key \/ roster = <<>>
       THEN enrich_pc' = "done" /\ enrich_ret' = roster
       ELSE enrich_pc' = "batch" /\ UNCHANGED enrich_ret
    /\ UNCHANGED <<roster, batch_i, api_log, batch_log>>
    /\ EnrichUnchanged

\* Lines 85-111: the first request of a batch.
Post ==
    /\ enrich_pc = "batch"
    /\ \E answer \in Answers :
          /\ api_log' = Append(api_log, [call |-> "post", i |-> batch_i, answer |-> answer])
          /\ CASE answer = 200 ->
                    \E body \in Bodies(Cardinality(BatchOf(roster, batch_i))) : Parse(body)
               [] answer = NoAnswer ->
                    BatchOver("network_error", "none") /\ UNCHANGED roster
               [] OTHER ->
                    IF Retryable(answer)
                    THEN enrich_pc' = "rate_limited" /\ UNCHANGED <<roster, batch_log>>
                    ELSE BatchOver("http_error", "HTTPError") /\ UNCHANGED roster
    /\ UNCHANGED <<batch_i, enrich_ret>>
    /\ EnrichUnchanged

\* Lines 96-97: the wait after a 429.
Wait ==
    /\ enrich_pc = "rate_limited"
    /\ api_log' = Append(api_log, [call |-> "sleep", i |-> batch_i, answer |-> RateLimitWait])
    /\ enrich_pc' = "retry"
    /\ UNCHANGED <<roster, batch_i, batch_log, enrich_ret>>
    /\ EnrichUnchanged

\* Lines 98-106: the one retry. Whatever it raises leaves _enrich_batch: the
\* except clauses of lines 94 and 109 do not cover their own handler.
Retry ==
    /\ enrich_pc = "retry"
    /\ \E answer \in Answers :
          /\ api_log' = Append(api_log, [call |-> "post", i |-> batch_i, answer |-> answer])
          /\ CASE answer = 200 ->
                    \E body \in Bodies(Cardinality(BatchOf(roster, batch_i))) : Parse(body)
               [] answer = NoAnswer ->
                    BatchOver("retry_failed", "ConnectionError") /\ UNCHANGED roster
               [] OTHER ->
                    BatchOver("retry_failed", "HTTPError") /\ UNCHANGED roster
    /\ UNCHANGED <<batch_i, enrich_ret>>
    /\ EnrichUnchanged

\* Lines 53-58 and the next round of the for: pause if a batch follows, move
\* on, and return the list after the last batch.
NextBatch ==
    /\ enrich_pc = "between"
    /\ api_log' = IF batch_i + BATCH_SIZE < Len(roster)
                  THEN Append(api_log, [call |-> "sleep", i |-> batch_i, answer |-> RATE_LIMIT_DELAY])
                  ELSE api_log
    /\ batch_i' = batch_i + BATCH_SIZE
    /\ IF batch_i + BATCH_SIZE < Len(roster)
       THEN enrich_pc' = "batch" /\ UNCHANGED enrich_ret
       ELSE enrich_pc' = "done" /\ enrich_ret' = roster
    /\ UNCHANGED <<roster, batch_log>>
    /\ EnrichUnchanged

EnrichNext == EnrichStart \/ Post \/ Wait \/ Retry \/ NextBatch

EnrichSpec == EnrichInit /\ [][EnrichNext]_vars

----------------------------------------------------------------------------
(* Properties of the functions (ApplySpec) *)

Applied(f) == callee = f /\ runs > 0

\* C12: _extract_nextjs_speakers never raises, whether the __NEXT_DATA__ block
\* is absent, is no valid JSON, is JSON of an unexpected shape (top level no
\* object, props or pageProps no object, speakers no list, an entry no object,
\* custom_fields null) or holds no speaker list: it returns a list.
C12_NextjsNeverRaises ==
    Applied("_extract_nextjs_speakers") => ~ret.raised

SiteExtractors == {"scrape_consensus_speakers", "scrape_dcblockchainsummit_speakers",
                   "scrape_btcprague_speakers", "scrape_ethdenver_speakers"}

\* C15: the list a site-specific extractor returns never holds two records
\* whose names are equal case-insensitively after trimming, even when two
\* detail pages or two headings carry the same name.
C15_ExtractorsDeduplicate ==
    (callee \in SiteExtractors /\ runs > 0)
        => \A i, j \in 1..Len(ret) :
               i # j => TrimmedLower(ret[i].name) # TrimmedLower(ret[j].name)

\* the first non-empty string of a list of strings and Nones, None without one
RECURSIVE FirstNonEmpty(_)
FirstNonEmpty(values) ==
    IF values = <<>> THEN None
    ELSE IF Head(values) # None /\ Head(values) # Empty THEN Head(values)
    ELSE FirstNonEmpty(Tail(values))

\* the value of custom field f of entry s, None when there is none
CustomValue(s, f) ==
    IF s.custom_fields.shape = "object" /\ s.custom_fields[f].shape = "object"
    THEN s.custom_fields[f].value ELSE None

\* the call mapped a list of exactly one entry
MappedOne ==
    /\ Applied("_extract_nextjs_speakers") /\ ~ret.raised
    /\ arg.script = "json" /\ arg.data = "object"
    /\ arg.props = "object" /\ arg.pageProps = "object"
    /\ arg.speakers.shape = "list" /\ Len(arg.speakers.items) = 1

\* C14: a Next.js entry is mapped with fixed priorities: name is the first
\* non-empty of title, name, fullName (no record without one); job title is
\* custom_fields.speaker_job.value if non-empty, otherwise the first non-empty
\* of tagLine, title_position, jobTitle; company is
\* custom_fields.speaker_company.value if non-empty, otherwise the first
\* non-empty of company, organization; a flat alias is never used when the
\* custom field has a value.
C14_FieldPriorities ==
    MappedOne =>
        LET s     == arg.speakers.items[1]
            name  == FirstNonEmpty(<<s.title, s.name, s.fullName>>)
            job   == FirstNonEmpty(<<CustomValue(s, "speaker_job")>>)
            comp  == FirstNonEmpty(<<CustomValue(s, "speaker_company")>>)
            title_alias == FirstNonEmpty(<<s.tagLine, s.title_position, s.jobTitle>>)
            comp_alias  == FirstNonEmpty(<<s.company, s.organization>>)
        IN  IF name = None THEN ret.speakers = <<>>
            ELSE /\ Len(ret.speakers) = 1
                 /\ ret.speakers[1].name = name
                 /\ job # None => ret.speakers[1].title = job
                 /\ (job = None /\ title_alias # None)
                       => ret.speakers[1].title = title_alias
                 /\ comp # None => ret.speakers[1].company = comp
                 /\ (comp = None /\ comp_alias # None)
                       => ret.speakers[1].company = comp_alias

C14_Witness ==
    /\ MappedOne
    /\ arg.speakers.items[1].custom_fields.shape = "object"
    /\ arg.speakers.items[1].custom_fields.speaker_job = Field(<<"j", "o", "b">>)
    /\ arg.speakers.items[1].custom_fields.speaker_company = Field(Empty)
    /\ arg.speakers.items[1].tagLine = <<"t">>
    /\ arg.speakers.items[1].company = Empty
    /\ arg.speakers.items[1].organization = <<"o">>
    /\ ret.speakers[1].name = NameN
    /\ ret.speakers[1].title = <<"j", "o", "b">>
    /\ ret.speakers[1].company = <<"o">>

----------------------------------------------------------------------------
(* Properties of scrape_speakers (Spec) *)

SiteSet           == {Sites[i] : i \in 1..Len(Sites)}
GenericStrategies == {"fetch", "nextjs", "dom", "sitemap", "wordpress", "playwright"}
LaterStrategies   == GenericStrategies \ {"fetch"}
EscalationPaths   == {"sitemap", "wordpress", "playwright"}

Called(x)     == \E i \in 1..Len(calls) : calls[i] = x
CalledAny(xs) == \E i \in 1..Len(calls) : calls[i] \in xs

\* an escalation path is run in this step
EscalationRuns == pc \in EscalationPaths /\ calls' # calls

\* C1: with N deduplicated heuristic records, an escalation path that is run
\* and yields M records has its result returned if and only if M > N; when no
\* path that is run yields more, the heuristic result is returned unchanged
\* (same records, same order).
C1_EscalationMonotone ==
    [][/\ EscalationRuns =>
            /\ escalation'.path = pc
            /\ (pc' = "done" /\ result_src' = escalation'.path)
                  <=> Len(escalation'.speakers) > Len(unique_speakers)
            /\ (pc' = "done" /\ result_src' = escalation'.path)
                  => result' = escalation'.speakers
       /\ (pc \in EscalationPaths /\ pc' = "done" /\ result_src' \notin EscalationPaths)
            => /\ result_src' = "heuristic"
               /\ result' = unique_speakers
               /\ result' = InlineDedupe(speakers)
       /\ pc \in EscalationPaths
            => unique_speakers' = unique_speakers /\ speakers' = speakers]_vars

C1_Witness ==
    /\ pc = "done" /\ result_src = "wordpress"
    /\ escalation = [path |-> "wordpress", speakers |-> result]
    /\ Called("sitemap")
    /\ Len(unique_speakers) = 1 /\ Len(result) = 2

C3_OneRecordPerName ==
    pc = "done" =>
        \A i, j \in 1..Len(result) :
            i # j => TrimmedLower(result[i].name) # TrimmedLower(result[j].name)

\* C7: every record of a returned list has a name that is non-empty after
\* trimming whitespace.
C7_NoBlankName ==
    pc = "done" => \A i \in 1..Len(result) : Strip(result[i].name) # Empty

\* C10: an extractor is called only for a url that matches its pattern and
\* before any generic fetch; a non-empty list it returns is the final result
\* and no generic strategy runs; after an empty list the function goes on, and
\* it returns nothing before it has fetched the page.
C10_RegistryFirst ==
    /\ \A i \in 1..Len(calls) : calls[i] \in SiteSet => calls[i] \in url
    /\ \A i \in 1..Len(calls) :
          calls[i] = "fetch"
              => \A s \in url \cap SiteSet : \E j \in 1..(i - 1) : calls[j] = s
    /\ (calls # <<>> /\ calls[Len(calls)] \in SiteSet)
          => IF speakers # <<>>
             THEN /\ pc = "done" /\ result = speakers /\ result_src = "site"
                  /\ ~CalledAny(GenericStrategies)
             ELSE pc \notin {"done", "raised"}
    /\ (pc = "done" /\ result_src # "site") => Called("fetch")

C10_Witness ==
    /\ url = {"dcblockchainsummit.com"}
    /\ pc = "done" /\ result_src = "site"
    /\ calls = <<"dcblockchainsummit.com">>
    /\ Len(result) = 2

\* C11: every site that has an extractor module (Consensus/coindesk, DC
\* Blockchain Summit, BTC Prague, ETH Denver, Web3 Hub Davos) is registered:
\* for a url of that site, the site's extractor is called before any generic
\* strategy.
C11_EveryExtractorRegistered ==
    \A i \in 1..Len(calls) :
        calls[i] \in GenericStrategies
            => \A s \in url \cap ExtractorSites : \E j \in 1..(i - 1) : calls[j] = s

\* C13: whenever _extract_nextjs_speakers returns a non-empty list for the
\* fetched page, scrape_speakers returns exactly that list at once: neither the
\* DOM heuristics nor an escalation path (sitemap, pagination, browser) runs;
\* the heuristics run only after it returned an empty list.
C13_StructuredDataAuthoritative ==
    /\ nextjs_speakers # <<>>
          => /\ pc = "done" /\ result = nextjs_speakers /\ result_src = "nextjs"
             /\ calls[Len(calls)] = "nextjs"
             /\ ~CalledAny({"dom"} \cup EscalationPaths)
    /\ result_src = "nextjs" => nextjs_speakers # <<>>
    /\ Called("dom") => nextjs_speakers = <<>>

C13_Witness ==
    /\ pc = "done" /\ result_src = "nextjs"
    /\ Len(nextjs_speakers) = 2 /\ result = nextjs_speakers
    /\ calls = <<"fetch", "nextjs">>

NonBrowserResults == {"fetch_failed", "nextjs", "sitemap", "wordpress", "heuristic"}

\* what the functions that need the browser return with PLAYWRIGHT_AVAILABLE
\* false, over everything the browser could deliver
UnavailableResults ==
    {_scrape_with_playwright(FALSE, page) : page \in RenderedInputs}
        \cup {scrape_consensus_speakers(FALSE, browser) : browser \in BrowserInputs}
        \cup {scrape_dcblockchainsummit_speakers(FALSE, browser) : browser \in BrowserInputs}
        \cup {scrape_ethdenver_speakers(FALSE, browser) : browser \in BrowserInputs}
        \cup {scrape_btcprague_speakers(FALSE, browser) : browser \in BtcBrowserInputs}
        \cup {scrape_web3hubdavos_speakers(FALSE, browser) : browser \in Web3BrowserInputs}

EscalationOrder == <<"sitemap", "wordpress", "playwright">>
Rank(path)      == CHOOSE i \in 1..Len(EscalationOrder) : EscalationOrder[i] = path

\* C17 (as the code has it): the escalation paths that are run are run in the
\* order sitemap, paginated archive, browser, each at most once; execution
\* goes on past a cheaper path only when that path did not yield strictly
\* more records than the heuristic result; and when _scrape_with_playwright
\* is called, the sitemap path was attempted earlier exactly when the
\* heuristic count is at most 5, and the paginated-archive path exactly when
\* in addition the page carries a pagination marker.
C17_EscalationOrder ==
    /\ \A i, j \in 1..Len(calls) :
           i < j /\ calls[i] \in EscalationPaths /\ calls[j] \in EscalationPaths
               => Rank(calls[i]) < Rank(calls[j])
    /\ pc \in {"wordpress", "playwright"} /\ escalation.path \in {"sitemap", "wordpress"}
           => ~Beats(escalation.speakers, unique_speakers)
    /\ Called("playwright") =>
           /\ Called("sitemap") <=> Len(unique_speakers) <= FewSpeakers
           /\ Called("wordpress") <=> Len(unique_speakers) <= FewSpeakers /\ has_pagination

\* an invocation that ran the sitemap path, then the paginated archive, then
\* the browser
C17_Witness ==
    /\ pc = "done"
    /\ Called("sitemap") /\ Called("wordpress") /\ Called("playwright")

\* C17 (as stated): whenever _scrape_with_playwright is called, the sitemap
\* and the paginated-archive escalations were both attempted earlier in the
\* invocation.
C17_BrowserAfterBothCheaper ==
    Called("playwright") => Called("sitemap") /\ Called("wordpress")

\* the trigger as the claim words it, on the state of the invocation
TriggerHolds ==
    \/ Len(unique_speakers) <= LowCount
    \/ is_js_heavy /\ Len(unique_speakers) < JsHeavyCount

\* C18 (as the code has it): no escalation path is invoked unless the
\* deduplicated heuristic count is at or below the low threshold, or the raw
\* page content carries a JS-framework marker while the count is below the
\* higher threshold. When that trigger holds, the sitemap path is attempted
\* exactly when the count is at most 5, the paginated-archive path exactly
\* when in addition the page carries a pagination marker and the sitemap
\* path did not beat the count, and the browser path exactly when the
\* browser is available, the page carries a JS-framework marker and no
\* earlier path beat the count.
C18_EscalationTrigger ==
    /\ CalledAny(EscalationPaths) => TriggerHolds
    /\ pc = "done" /\ Called("dom") =>
           /\ Called("sitemap") <=>
                  TriggerHolds /\ Len(unique_speakers) <= FewSpeakers
           /\ Called("wordpress") <=>
                  /\ TriggerHolds /\ Len(unique_speakers) <= FewSpeakers
                  /\ has_pagination /\ result_src # "sitemap"
           /\ Called("playwright") <=>
                  /\ TriggerHolds /\ playwright_available /\ is_js_heavy
                  /\ result_src \notin {"sitemap", "wordpress"}

\* an invocation on a JS-marked page with one record fewer than the higher
\* threshold, where the browser path was run
C18_Witness ==
    /\ pc = "done" /\ is_js_heavy
    /\ Len(unique_speakers) = JsHeavyCount - 1
    /\ Called("playwright")

\* C18 (as stated): an invocation that reached the heuristic count has
\* attempted the escalation chain if and only if the trigger holds.
C18_ChainRunsIffTrigger ==
    pc = "done" /\ Called("dom") => (TriggerHolds <=> CalledAny(EscalationPaths))

----------------------------------------------------------------------------
(* Properties of the extractors that enumerate detail pages (ApplySpec) *)

EnumeratingExtractors ==
    {"_extract_wordpress_paginated_speakers", "scrape_consensus_speakers",
     "scrape_ethdenver_speakers"}

\* the urls of links in the order of their first occurrence
RECURSIVE FirstSeen(_, _)
FirstSeen(links, seen) ==
    IF links = <<>> THEN <<>>
    ELSE IF Head(links) \in seen THEN FirstSeen(Tail(links), seen)
    ELSE <<Head(links)>> \o FirstSeen(Tail(links), seen \cup {Head(links)})

\* what callee returns when it visits the detail pages in first-seen order
InFirstSeenOrder ==
    LET pages == Visit(FirstSeen(arg.links, {}), arg.site)
    IN  CASE callee = "_extract_wordpress_paginated_speakers" ->
                 _extract_wordpress_paginated_speakers(pages)
          [] callee = "scrape_consensus_speakers" ->
                 scrape_consensus_speakers(arg.available,
                                           [failed |-> arg.failed, pages |-> pages])
          [] callee = "scrape_ethdenver_speakers" ->
                 scrape_ethdenver_speakers(arg.available,
                                           [failed |-> arg.failed, pages |-> pages])

\* C19: for fixed page contents, the records gathered from enumerated detail
\* pages (paginated archive, site-specific link enumeration) come in the
\* first-seen order of their links, and a second run returns the same
\* records in the same order as the first.
C19_ReproducibleOrder ==
    callee \in EnumeratingExtractors =>
        /\ runs > 0 => ret = InFirstSeenOrder
        /\ runs > 1 => ret_again = ret

----------------------------------------------------------------------------
(* Properties of the name heuristic (ApplySpec) *)

\* the positions of text at which a whitespace-separated token starts
TokenStarts(text) ==
    {i \in 1..Len(text) :
        text[i] \notin Whitespace /\ (i = 1 \/ text[i - 1] \in Whitespace)}

\* the token of text that starts at position i
TokenAt(text, i) ==
    LET last == CHOOSE j \in i..Len(text) :
                    /\ \A k \in i..j : text[k] \notin Whitespace
                    /\ j = Len(text) \/ text[j + 1] \in Whitespace
    IN  SubSeq(text, i, last)

TokensOf(text) == {TokenAt(text, i) : i \in TokenStarts(text)}

\* C20: _looks_like_name(text) accepts text exactly when it has between 2
\* and 5 whitespace-separated tokens, no token equals (case-insensitively) a
\* stopword, no token equals (case-insensitively) a company-noise word, and
\* its first character is upper-case; "Jane Doe" is accepted and "Jane Doe
\* Smith Extra Words Here", "Acme Ventures" and "jane doe" are rejected.
C20_LooksLikeName ==
    Applied("_looks_like_name") =>
        /\ ret <=>
               /\ Cardinality(TokenStarts(arg)) \in 2..5
               /\ \A token \in TokensOf(arg) :
                      \A word \in non_name_words \cup company_words :
                          Lower(token) # Lower(word)
               /\ arg[1] \in UpperChars
        /\ arg = JaneDoe => ret
        /\ arg \in {JaneDoeLong, AcmeVentures, JaneDoeLower} => ~ret

\* "Acme Ventures" was given and rejected
C20_Witness ==
    Applied("_looks_like_name") /\ arg = AcmeVentures /\ ~ret

----------------------------------------------------------------------------
(* Properties of the title-to-company split (ApplySpec) *)

AcmeCorp == Spaced(<<<<"A", "c", "m", "e">>, <<"C", "o", "r", "p">>>>)

\* the characters of title that are c
Occurrences(title, c) == {i \in 1..Len(title) : title[i] = c}

\* a word of title is "at", in any case
HasAtWord(title) ==
    \E i \in 1..Len(Split(title)) : Lower(Split(title)[i]) = <<"a", "t">>

\* title has none of the separators at, @, comma, pipe, hyphen
NoSeparator(title) ==
    /\ ~HasAtWord(title)
    /\ \A c \in {"@", ",", "|", "-"} : Occurrences(title, c) = {}

\* title is a role, one comma, whitespace and a company, with no other
\* separator
OnlyComma(title) ==
    /\ ~HasAtWord(title)
    /\ \A c \in {"@", "|", "-"} : Occurrences(title, c) = {}
    /\ \E i \in 2..(Len(title) - 2) :
           /\ Occurrences(title, ",") = {i}
           /\ title[i + 1] \in Whitespace
           /\ Strip(SubSeq(title, i + 1, Len(title))) # Empty

AfterComma(title) ==
    LET i == CHOOSE i \in Occurrences(title, ",") : TRUE
    IN  Strip(SubSeq(title, i + 1, Len(title)))

\* C21: _extract_company_from_title gives "Acme Corp" for "CEO at Acme Corp"
\* and for "CEO, Acme Corp", and no company for "CEO"; a title with no
\* separator yields no company; a title whose only separator is a comma,
\* whatever words the role contains, gives the trimmed text after the comma.
C21_TitleSplit ==
    Applied("_extract_company_from_title") =>
        /\ arg \in {CeoAtAcmeCorp, CeoCommaAcmeCorp} => ret = AcmeCorp
        /\ arg = Ceo => ret = None
        /\ NoSeparator(arg) => ret = None
        /\ OnlyComma(arg) => ret = AfterComma(arg)

----------------------------------------------------------------------------
(* Properties of the card selection and the page-builder cards (Spec) *)

\* a card with the page-builder marker, two headings and a text widget,
\* none of them blank
WellFormed(card) ==
    /\ card.elementor
    /\ Len(card.h2) >= 2 /\ Len(card.widgets) >= 1
    /\ Truthy(GetText(card.h2[1])) /\ Truthy(GetText(card.h2[2]))
    /\ Truthy(GetText(card.widgets[1]))

\* five well-formed cards whose names differ as names are compared
FiveWellFormed(cards) ==
    /\ Len(cards) = 5
    /\ \A i \in 1..5 : WellFormed(cards[i])
    /\ \A i, j \in 1..5 :
           i # j => Strip(Lower(GetText(cards[i].h2[1]))) # Strip(Lower(GetText(cards[j].h2[1])))

\* C22: for a fetched page whose cards are exactly 5 well-formed cards with
\* the page-builder marker and 5 distinct names, and no escalation path
\* returning more records, scrape_speakers returns exactly 5 records, the
\* i-th with name = text of the first heading of the i-th card, title = text
\* of its first text widget, company = text of its second heading, whether
\* or not the name passes the name heuristic.
C22_PageBuilderEndToEnd ==
    pc = "done" /\ result_src = "heuristic" /\ FiveWellFormed(selection.cards) =>
        /\ Len(result) = 5
        /\ \A i \in 1..5 :
               /\ result[i].name    = GetText(selection.cards[i].h2[1])
               /\ result[i].title   = GetText(selection.cards[i].widgets[1])
               /\ result[i].company = GetText(selection.cards[i].h2[2])

\* the five records came back, one of them under a name the name heuristic
\* does not accept
C22_Witness ==
    /\ pc = "done" /\ result_src = "heuristic" /\ FiveWellFormed(selection.cards)
    /\ Len(result) = 5
    /\ \E i \in 1..5 : ~_looks_like_name(result[i].name)

\* the selectors of SPEAKER_SELECTORS that match an element of the page
Matching == {k \in 1..Len(SPEAKER_SELECTORS) : soup.by_selector[k] # <<>>}

\* C23: the cards of scrape_speakers are exactly the elements matched by the
\* first selector of SPEAKER_SELECTORS that matches one or more elements;
\* no later selector is consulted once one matched, even if the matched
\* cards yield no record; the fallback detector is invoked if and only if
\* no selector matches any element.
C23_FirstMatchWins ==
    Called("dom") =>
        /\ \A k \in Matching :
               (\A j \in Matching : k <= j) =>
                   /\ selection.cards = soup.by_selector[k]
                   /\ selection.consulted = k
        /\ selection.fallback <=> Matching = {}
        /\ selection.fallback =>
               selection.cards =
                   [i \in 1..Len(_fallback_speaker_detection(soup.containers)) |->
                       _fallback_speaker_detection(soup.containers)[i].card]

\* two selectors match, the cards of the first one yield no record, and the
\* second one was not consulted
C23_Witness ==
    /\ Called("dom") /\ Cardinality(Matching) = 2
    /\ \E k \in Matching : selection.consulted = k /\ \E j \in Matching : k < j
    /\ speakers = <<>> /\ ~selection.fallback

----------------------------------------------------------------------------
(* Properties of the fallback card detector (ApplySpec) *)

\* the children of parent with tag, in document order
Group(containers, parent, tag) ==
    SelectSeq(containers, LAMBDA c : c.parent = parent /\ c.tag = tag)

\* container holds an image and more than 20 and fewer than 500 characters
HoldsPerson(container) ==
    container.has_image /\ container.text_len \in (MinCardText + 1)..(MaxCardText - 1)

\* the positions of the candidates with at least 3 same-tag siblings
Qualifying(containers) ==
    {n \in 1..Len(containers) :
        /\ HoldsPerson(containers[n])
        /\ Len(Group(containers, containers[n].parent, containers[n].tag)) >= 3}

\* C24 (as the code has it): _fallback_speaker_detection returns nothing when
\* no candidate (a div/article/li/section with an image and more than 20 and
\* fewer than 500 characters of text) has a parent with at least 3 children
\* of the candidate's tag; otherwise it returns, for the first such candidate
\* in document order, all the children of its parent that have its tag,
\* whether or not they are candidates themselves, and no other group.
C24_FirstSiblingGroup ==
    Applied("_fallback_speaker_detection") =>
        /\ Qualifying(arg) = {} => ret = <<>>
        /\ \A n \in Qualifying(arg) :
               (\A m \in Qualifying(arg) : n <= m) =>
                   ret = Group(arg, arg[n].parent, arg[n].tag)

\* a group was returned that holds an element without an image, while a
\* later group qualifies as well
C24_Witness ==
    /\ Applied("_fallback_speaker_detection")
    /\ \E i \in 1..Len(ret) : ~ret[i].has_image
    /\ \E n \in Qualifying(arg) : \A i \in 1..Len(ret) : ret[i].parent # arg[n].parent

\* C24 (as stated): every returned element is itself a candidate, holding
\* an image and between 20 and 500 characters of text.
C24_AllReturnedAreCandidates ==
    Applied("_fallback_speaker_detection") =>
        \A i \in 1..Len(ret) :
            ret[i].has_image /\ ret[i].text_len \in MinCardText..MaxCardText

----------------------------------------------------------------------------
(* Properties of the cards without the page-builder marker (ApplySpec) *)

\* the stripped texts of raws
Texts(raws) == [i \in 1..Len(raws) |-> Strip(raws[i])]

\* text has more than 2 and fewer than 50 characters and looks like a name
NameLike(text) == Len(text) \in 3..49 /\ _looks_like_name(text)

\* the first text of texts that is NameLike, None if there is none
FirstNameLike(texts) ==
    LET hits == {i \in 1..Len(texts) : NameLike(texts[i])}
    IN  IF hits = {} THEN None
        ELSE texts[CHOOSE i \in hits : \A j \in hits : i <= j]

C26_FieldsDiffer ==
    Applied("_extract_speaker_from_card") /\ ~arg.elementor /\ ret # NoSpeaker =>
        /\ Truthy(ret.title)   => ret.title # ret.name
        /\ Truthy(ret.company) => ret.company # ret.name /\ ret.company # ret.title

----------------------------------------------------------------------------
(* Properties of the scroll loop (ScrollFairSpec) *)

\* The loop is left by its break exactly at a step whose count equals the
\* count recorded by the step before, with more than 5 steps completed.
BreakOnlyWhenSettled ==
    left_by' = "break" /\ left_by # "break"
        => /\ card_count' = last_card_count
           /\ scroll_count > SettledAfter
           /\ scroll_count' = scroll_count

\* A loop that ran to its end without an exception and before the limit was
\* left by the break.
EarlyStopIsBreak ==
    scroll_pc = "scrolled" /\ scroll_count < max_scrolls => left_by = "break"

\* C27: the scroll loop always terminates; it performs at most max_scrolls
\* scroll steps; it stops early only at a step whose observed card count
\* equals the count of the previous step with more than 5 steps completed; a
\* count that keeps growing cannot carry it past max_scrolls.
C27_ScrollLoopTerminates ==
    /\ [](scrolls <= max_scrolls /\ scroll_count <= max_scrolls /\ EarlyStopIsBreak)
    /\ [][BreakOnlyWhenSettled]_vars
    /\ <>(scroll_pc # "loop")

\* A page whose count stood still after seven steps made the loop break long
\* before the default limit.
C27_Witness ==
    /\ left_by = "break" /\ max_scrolls = DefaultMaxScrolls
    /\ scrolls = SettledAfter + 2 /\ scroll_count = SettledAfter + 1
    /\ card_count > 0

\* A page whose count grew at every step was scrolled max_scrolls times.
GrewToTheLimit ==
    /\ left_by = "limit" /\ max_scrolls = DefaultMaxScrolls
    /\ scrolls = DefaultMaxScrolls /\ last_card_count = DefaultMaxScrolls * MaxGrowth

----------------------------------------------------------------------------
(* Properties of the enrichment (EnrichSpec) *)

Ids(list) == [k \in 1..Len(list) |-> list[k].id]

\* Batches that ended in one of the failures of the request: an HTTP error, a
\* network error, or a failed retry after a rate limit.
RequestFailures == {"http_error", "network_error", "retry_failed"}

\* The batches tried so far are the consecutive slices of at most BATCH_SIZE
\* speakers, in order, none left out.
ConsecutiveBatches ==
    \A k \in 1..Len(batch_log) :
        /\ batch_log[k].i = (k - 1) * BATCH_SIZE
        /\ batch_log[k].size >= 1 /\ batch_log[k].size <= BATCH_SIZE
        /\ batch_log[k].size = Cardinality(BatchOf(roster, batch_log[k].i))
        /\ \E c \in 1..Len(api_log) : api_log[c].call = "post" /\ api_log[c].i = batch_log[k].i

FailedBatchesUntouched ==
    \A k \in 1..Len(batch_log) :
        batch_log[k].how \in RequestFailures
            => \A j \in BatchOf(roster, batch_log[k].i) : roster[j].email = None

AllBatchesProcessed ==
    enrich_pc = "done" /\ api_key
        => /\ Len(batch_log) * BATCH_SIZE >= Len(roster)
           /\ (Len(batch_log) - 1) * BATCH_SIZE < Len(roster) \/ roster = <<>>

\* C28: enrich_speakers never raises and returns its input list, same
\* speakers in the same order, whatever the API does; speakers go out in
\* consecutive batches of at most 10; a batch that fails (HTTP error, network
\* error, rate limit on retry) leaves its speakers unenriched and every later
\* batch is still processed.
C28_EnrichNeverRaises ==
    /\ [](/\ enrich_pc # "raised"
          /\ enrich_pc = "done" => enrich_ret = roster
          /\ ConsecutiveBatches
          /\ FailedBatchesUntouched
          /\ AllBatchesProcessed)
    /\ [][Ids(roster') = Ids(roster)]_vars

\* Three batches: the first failed with an HTTP error, the second with a
\* failed retry, the third was enriched, and the list came back.
C28_Witness ==
    /\ enrich_pc = "done" /\ Len(enrich_ret) = 2 * BATCH_SIZE + 1
    /\ Len(batch_log) = 3
    /\ batch_log[1].how = "http_error"
    /\ batch_log[2].how = "retry_failed"
    /\ batch_log[3].how = "parsed"
    /\ enrich_ret[1].email = None /\ enrich_ret[BATCH_SIZE + 1].email = None
    /\ enrich_ret[2 * BATCH_SIZE + 1].email = FoundEmail

\* The requests of the batch that starts after position i, as positions of
\* api_log.
PostsOf(i) == {c \in 1..Len(api_log) : api_log[c].call = "post" /\ api_log[c].i = i}

\* C29: per batch the API is called at most twice; the second call happens
\* only when the first answered 429 and only after the wait; another HTTP
\* error is not retried; a failed retry is not retried again.
C29_RetryOnce ==
    \A c \in 1..Len(api_log) :
        api_log[c].call = "post" =>
            LET posts == PostsOf(api_log[c].i)
            IN  /\ Cardinality(posts) <= 2
                /\ \A d \in posts : d < c =>
                      /\ api_log[d].answer = TooManyRequests
                      /\ c = d + 2
                      /\ api_log[d + 1].call = "sleep"
                      /\ api_log[d + 1].answer = RateLimitWait

\* The first batch was rate limited, waited for and retried, the retry was
\* rate limited too, and the second batch got one request that failed with 500.
C29_Witness ==
    /\ Len(api_log) = 5
    /\ api_log[1].call = "post"  /\ api_log[1].answer = TooManyRequests
    /\ api_log[2].call = "sleep" /\ api_log[2].answer = RateLimitWait
    /\ api_log[3].call = "post"  /\ api_log[3].answer = TooManyRequests
    /\ api_log[4].call = "sleep" /\ api_log[4].answer = RATE_LIMIT_DELAY
    /\ api_log[5].call = "post"  /\ api_log[5].answer = 500 /\ api_log[5].i = BATCH_SIZE
    /\ enrich_pc = "between"

----------------------------------------------------------------------------
(* Properties of the worksheet round trip (ApplySpec) *)

\* One row came back as it was written.
SameNames(row, speaker) ==
    speaker.first_name = row[1] /\ speaker.last_name = row[2]

\* C30: for every list of speakers, writing the rows of
\* format_speakers_for_sheets and reading them back with
\* read_speakers_from_worksheet gives, row for row, records whose first_name
\* and last_name equal the First Name and Last Name cells written, multi-token
\* first names and empty first names included.
C30_RoundTrip ==
    Applied("format_speakers_for_sheets") =>
        /\ Len(ret.read) = Len(ret.rows)
        /\ \A k \in 1..Len(ret.rows) : SameNames(ret.rows[k], ret.read[k])

\* What does hold: a row with a one-token first name and a last name comes
\* back with both.
OneTokenFirstNameKept ==
    Applied("format_speakers_for_sheets") /\ Len(ret.read) = Len(ret.rows) =>
        \A k \in 1..Len(ret.rows) :
            Len(Split(ret.rows[k][1])) = 1 => SameNames(ret.rows[k], ret.read[k])

====
